---- MODULE Spec2Model ----
(***************************************************************************)
(* minimark: the save pipeline of src/main.go.  A per-file lock table with *)
(* a one second TTL, content-driven file naming, collision-safe renaming   *)
(* and the export step.                                                    *)
(*                                                                         *)
(* Text (file names, document bodies) is a sequence of one-character       *)
(* strings, so that the string functions of the code are computed and not  *)
(* assumed.  Time is counted in ticks of 500 ms: lockTTL is 2 ticks.       *)
(***************************************************************************)
EXTENDS Integers, Sequences, FiniteSets, TLC

\* ------------------------------------------------------------------------
\* Bounds of the model
\* ------------------------------------------------------------------------
\* the clock stops after MaxClock ticks of 500 ms
MaxClock == 3

\* no Save is started once the working directory may hold MaxFiles files
MaxFiles == 2

\* the requests received while the endpoints are served concurrently
MaxRequests == 4

\* the length of the titles given to slugify
MaxLen == 4

\* the number of lines of the documents given to extractTitle
MaxLines == 3

\* the directories given to uniqueAvailableName hold numbered names up to
\* -MaxSuffix, and one holds the whole run up to -LongRun
MaxSuffix == 2

LongRun == 10

\* ------------------------------------------------------------------------
\* Text helpers (package strings, path/filepath, fmt)
\* ------------------------------------------------------------------------
Lowers == <<"a","b","c","d","e","f","g","h","i","j","k","l","m",
            "n","o","p","q","r","s","t","u","v","w","x","y","z">>

Uppers == <<"A","B","C","D","E","F","G","H","I","J","K","L","M",
            "N","O","P","Q","R","S","T","U","V","W","X","Y","Z">>

Digits == <<"0","1","2","3","4","5","6","7","8","9">>

IsIn(c, seq) == \E i \in 1..Len(seq) : seq[i] = c

ToLowerChar(c) ==
    IF IsIn(c, Uppers) THEN Lowers[CHOOSE i \in 1..26 : Uppers[i] = c] ELSE c

ToLower(s) == [i \in 1..Len(s) |-> ToLowerChar(s[i])]

EqualFold(a, b) == ToLower(a) = ToLower(b)

\* unicode.IsSpace restricted to the characters the model writes
IsSpace(c) == c \in {" ", "\t", "\n", "\r"}

\* s[from..to] consists of white space; true of the empty range
AllSpace(s, from, to) == \A i \in from..to : IsSpace(s[i])

TrimSpace(s) ==
    IF \A i \in 1..Len(s) : IsSpace(s[i]) THEN <<>>
    ELSE LET first == CHOOSE i \in 1..Len(s) :
                         /\ ~IsSpace(s[i])
                         /\ \A j \in 1..(i-1) : IsSpace(s[j])
             last  == CHOOSE i \in 1..Len(s) :
                         /\ ~IsSpace(s[i])
                         /\ \A j \in (i+1)..Len(s) : IsSpace(s[j])
         IN SubSeq(s, first, last)

\* strings.Trim(s, "-")
TrimHyphens(s) ==
    IF \A i \in 1..Len(s) : s[i] = "-" THEN <<>>
    ELSE LET first == CHOOSE i \in 1..Len(s) :
                         /\ s[i] # "-"
                         /\ \A j \in 1..(i-1) : s[j] = "-"
             last  == CHOOSE i \in 1..Len(s) :
                         /\ s[i] # "-"
                         /\ \A j \in (i+1)..Len(s) : s[j] = "-"
         IN SubSeq(s, first, last)

HasSuffix(s, suf) ==
    /\ Len(suf) <= Len(s)
    /\ SubSeq(s, Len(s) - Len(suf) + 1, Len(s)) = suf

TrimSuffix(s, suf) ==
    IF HasSuffix(s, suf) THEN SubSeq(s, 1, Len(s) - Len(suf)) ELSE s

\* strconv.Itoa for the non-negative numbers of "%d"
RECURSIVE Itoa(_)
Itoa(n) == IF n < 10 THEN <<Digits[n + 1]>>
           ELSE Itoa(n \div 10) \o <<Digits[(n % 10) + 1]>>

\* filepath.Base: "" is ".", trailing separators are dropped, the last
\* element is returned, a path of separators only is "/"
RECURSIVE StripTrailingSlashes(_)
StripTrailingSlashes(p) ==
    IF Len(p) > 0 /\ p[Len(p)] = "/"
    THEN StripTrailingSlashes(SubSeq(p, 1, Len(p) - 1))
    ELSE p

Base(path) ==
    IF path = <<>> THEN <<".">>
    ELSE LET p == StripTrailingSlashes(path) IN
         IF p = <<>> THEN <<"/">>
         ELSE IF \E i \in 1..Len(p) : p[i] = "/"
              THEN LET i == CHOOSE k \in 1..Len(p) :
                               /\ p[k] = "/"
                               /\ \A j \in (k+1)..Len(p) : p[j] # "/"
                   IN SubSeq(p, i + 1, Len(p))
              ELSE p

\* filepath.Ext: the suffix beginning at the final dot of the final element
Ext(path) ==
    IF \E i \in 1..Len(path) :
          /\ path[i] = "."
          /\ \A j \in (i+1)..Len(path) : path[j] \notin {".", "/"}
    THEN LET i == CHOOSE k \in 1..Len(path) :
                     /\ path[k] = "."
                     /\ \A j \in (k+1)..Len(path) : path[j] \notin {".", "/"}
         IN SubSeq(path, i, Len(path))
    ELSE <<>>

\* ------------------------------------------------------------------------
\* slugify (main.go:254-272)
\* ------------------------------------------------------------------------
IsSlugChar(c) == IsIn(c, Lowers) \/ IsIn(c, Digits)

RECURSIVE slugLoop(_, _, _, _)
slugLoop(s, i, out, prevHyphen) ==
    IF i > Len(s) THEN out
    ELSE IF IsSlugChar(s[i]) THEN slugLoop(s, i + 1, Append(out, s[i]), FALSE)
    ELSE IF ~prevHyphen THEN slugLoop(s, i + 1, Append(out, "-"), TRUE)
    ELSE slugLoop(s, i + 1, out, TRUE)

\* a slugify that leaves the hyphens at both ends
slugify_noTrim(s) == slugLoop(ToLower(s), 1, <<>>, FALSE)

\* a slugify that trims the hyphens of its input, not of its result
slugify_trimsInput(s) == slugLoop(ToLower(TrimHyphens(s)), 1, <<>>, FALSE)

slugify(s) == TrimHyphens(slugLoop(ToLower(s), 1, <<>>, FALSE))

\* ------------------------------------------------------------------------
\* extractTitle (main.go:212-228).  The two regular expressions are matched
\* with Go's leftmost-first rule: the match starts at the least offset at
\* which one exists, a greedy operator takes the longest run that lets the
\* rest match, a lazy one the shortest.
\* ------------------------------------------------------------------------
NoMatch == [found |-> FALSE, start |-> 0, cap |-> <<>>]

\* (?m)^ and (?m)$
LineStart(s, i) == i = 1 \/ s[i-1] = "\n"

LineEnd(s, i) == i = Len(s) + 1 \/ s[i] = "\n"

IsBlank(c) == c \in {" ", "\t"}

IsEq(c) == c = "="

NotNL(c) == c # "\n"

NotCRNL(c) == c \notin {"\r", "\n"}

AllBlank(s, from, to) == \A i \in from..to : IsBlank(s[i])

AllEq(s, from, to) == \A i \in from..to : IsEq(s[i])

AllNotNL(s, from, to) == \A i \in from..to : NotNL(s[i])

AllNotCRNL(s, from, to) == \A i \in from..to : NotCRNL(s[i])

\* \s*$ from position p
RestOfLineSpace(s, p) ==
    \E m \in p..(Len(s) + 1) : AllSpace(s, p, m - 1) /\ LineEnd(s, m)

\* ^\s*#\s+(.+?)\s*$ anchored at i: the capture as <<k, l>> (start, length),
\* for each place j of the # and each end k - 1 of the white space after it
atxCaps(s, i) ==
    UNION {UNION {{<<k, l>> : l \in {l \in 1..(Len(s) - k + 1) :
                                        /\ AllNotNL(s, k, k + l - 1)
                                        /\ RestOfLineSpace(s, k + l)}} :
                  k \in {k \in (j + 2)..Len(s) : AllSpace(s, j + 1, k - 1)}} :
           j \in {j \in i..Len(s) : s[j] = "#" /\ AllSpace(s, i, j - 1)}}

\* of the possible captures <<start, length>>, the one the matcher reports:
\* the run before the capture is greedy (greatest start), the capture itself
\* is lazy (least length)
PickCap(caps) ==
    LET k == CHOOSE k \in {kl[1] : kl \in caps} :
                 \A k2 \in {kl[1] : kl \in caps} : k2 <= k
        l == CHOOSE l \in {kl[2] : kl \in {x \in caps : x[1] = k}} :
                 \A l2 \in {kl[2] : kl \in {x \in caps : x[1] = k}} : l <= l2
    IN <<k, l>>

\* caps[i] is the set of captures of the matches anchored at i; the match
\* reported is the one anchored at the least line start that has any
FirstMatch(s, caps) ==
    LET starts == {i \in 1..Len(s) : LineStart(s, i) /\ caps[i] # {}}
    IN IF starts = {} THEN NoMatch
       ELSE LET i  == CHOOSE i \in starts : \A i2 \in starts : i <= i2
                kl == PickCap(caps[i])
            IN [found |-> TRUE, start |-> i,
                cap |-> SubSeq(s, kl[1], kl[1] + kl[2] - 1)]

atxH1Re(s) == FirstMatch(s, [i \in 1..Len(s) |-> atxCaps(s, i)])

\* \r?\n[ \t]*=+[ \t]*$ from position e
Underline(s, e) ==
    \E nl \in {e, e + 1} :
        /\ nl <= Len(s)
        /\ s[nl] = "\n"
        /\ nl = e + 1 => s[e] = "\r"
        /\ \E a \in (nl + 1)..Len(s) : \E b \in (a + 1)..(Len(s) + 1) :
              /\ AllBlank(s, nl + 1, a - 1)
              /\ AllEq(s, a, b - 1)
              /\ \E z \in b..(Len(s) + 1) :
                    AllBlank(s, b, z - 1) /\ LineEnd(s, z)

\* ^\s*([^\r\n]+?)\s*\r?\n[ \t]*=+[ \t]*$ anchored at i
setextCaps(s, i) ==
    UNION {{<<k, l>> : l \in {l \in 1..(Len(s) - k + 1) :
                                 /\ AllNotCRNL(s, k, k + l - 1)
                                 /\ \E e \in (k + l)..Len(s) :
                                       /\ AllSpace(s, k + l, e - 1)
                                       /\ Underline(s, e)}} :
           k \in {k \in i..Len(s) : AllSpace(s, i, k - 1)}}

setextH1Re(s) == FirstMatch(s, [i \in 1..Len(s) |-> setextCaps(s, i)])

\* an extractTitle that takes the ATX match whenever there is one
extractTitle_atxFirst(content) ==
    LET atxIdx    == atxH1Re(content)
        setextIdx == setextH1Re(content)
    IN IF ~atxIdx.found /\ ~setextIdx.found THEN <<>>
       ELSE IF atxIdx.found THEN TrimSpace(atxIdx.cap)
            ELSE TrimSpace(setextIdx.cap)

extractTitle(content) ==
    LET atxIdx    == atxH1Re(content)
        setextIdx == setextH1Re(content)
    IN IF ~atxIdx.found /\ ~setextIdx.found THEN <<>>
       ELSE IF ~setextIdx.found \/ (atxIdx.found /\ atxIdx.start < setextIdx.start)
            THEN TrimSpace(atxIdx.cap)
            ELSE TrimSpace(setextIdx.cap)

\* ------------------------------------------------------------------------
\* decideFilenameFromContent (main.go:232-252)
\* ------------------------------------------------------------------------
dotMd == <<".", "m", "d">>

indexMd == <<"i","n","d","e","x">> \o dotMd

readmeMd == <<"r","e","a","d","m","e">> \o dotMd

\* a decideFilenameFromContent without the rule of the reserved names
decideFilenameFromContent_noReserved(current, content) ==
    LET base  == Base(current)
        title == extractTitle(content)
        slug  == slugify(title)
        candidate == slug \o dotMd
    IN IF title = <<>> THEN base
       ELSE IF slug = <<>> THEN base
       ELSE IF candidate = base THEN base
       ELSE candidate

\* a decideFilenameFromContent that does not look at the slug being empty
decideFilenameFromContent_noSlugCheck(current, content) ==
    LET base  == Base(current)
        lower == ToLower(base)
        title == extractTitle(content)
        candidate == slugify(title) \o dotMd
    IN IF lower = indexMd \/ lower = readmeMd THEN base
       ELSE IF title = <<>> THEN base
       ELSE IF candidate = base THEN base
       ELSE candidate

decideFilenameFromContent(current, content) ==
    LET base  == Base(current)
        lower == ToLower(base)
        title == extractTitle(content)
        slug  == slugify(title)
        candidate == slug \o dotMd
    IN IF lower = indexMd \/ lower = readmeMd THEN base
       ELSE IF title = <<>> THEN base
       ELSE IF slug = <<>> THEN base
       ELSE IF candidate = base THEN base
       ELSE candidate

\* ------------------------------------------------------------------------
\* Maps (Go maps, directories): functions with a finite domain
\* ------------------------------------------------------------------------
EmptyMap == [x \in {} |-> 0]

Has(m, k) == k \in DOMAIN m

Put(m, k, v) == [x \in (DOMAIN m) \cup {k} |-> IF x = k THEN v ELSE m[x]]

Delete(m, k) == [x \in (DOMAIN m) \ {k} |-> m[x]]

\* ------------------------------------------------------------------------
\* Names on disk
\* ------------------------------------------------------------------------
dotHtml == <<".", "h", "t", "m", "l">>

indexHtml == <<"i","n","d","e","x">> \o dotHtml

\* fileExistsLower (main.go:195-210) on the working directory `dir`
fileExistsLower(dir, name) ==
    \E e \in DOMAIN dir : ToLower(e) = ToLower(name)

\* an htmlOutNameFor that does not look for index.md
htmlOutNameFor_noIndexCheck(dir, mdBase) ==
    IF EqualFold(mdBase, readmeMd)
    THEN indexHtml
    ELSE TrimSuffix(mdBase, Ext(mdBase)) \o dotHtml

\* htmlOutNameFor (main.go:159-164)
htmlOutNameFor(dir, mdBase) ==
    IF EqualFold(mdBase, readmeMd) /\ ~fileExistsLower(dir, indexMd)
    THEN indexHtml
    ELSE TrimSuffix(mdBase, Ext(mdBase)) \o dotHtml

\* uniqueAvailableName (main.go:276-289): os.Stat succeeds on the names of dir
RECURSIVE uniqueLoop(_, _, _, _)
uniqueLoop(dir, base, ext, i) ==
    LET candidate == base \o <<"-">> \o Itoa(i) \o ext
    IN IF ~Has(dir, candidate) THEN candidate
       ELSE uniqueLoop(dir, base, ext, i + 1)

\* a uniqueAvailableName that tries the suffix -1 only
uniqueAvailableName_firstSuffix(dir, preferred0) ==
    LET preferred == Base(preferred0)
        ext  == Ext(preferred)
        base == TrimSuffix(preferred, ext)
    IN IF ~Has(dir, preferred) THEN preferred
       ELSE base \o <<"-", "1">> \o ext

uniqueAvailableName(dir, preferred0) ==
    LET preferred == Base(preferred0)
        ext  == Ext(preferred)
        base == TrimSuffix(preferred, ext)
    IN IF ~Has(dir, preferred) THEN preferred
       ELSE uniqueLoop(dir, base, ext, 1)

\* ------------------------------------------------------------------------
\* The lock table (main.go:356-462).  Each operator is the body of one
\* function between locksMu.Lock() and the deferred Unlock(), given the
\* clock reading `now` the function took before it entered.
\* ------------------------------------------------------------------------
\* lockTTL = time.Second, in ticks of 500 ms
lockTTL == 2

\* time.Time.Before / After
Before(a, b) == a < b

After(a, b) == a > b

\* a handleLock for which a lock still lives at the instant of its expiry
lockBody_lateExpiry(lk, name, reqToken, now, newTok) ==
    IF Has(lk, name) /\ ~After(now, lk[name].expires)
    THEN IF reqToken # "" /\ reqToken = lk[name].token
         THEN [status |-> 200, token |-> lk[name].token,
               locks |-> Put(lk, name, [token |-> lk[name].token,
                                        expires |-> now + lockTTL])]
         ELSE [status |-> 423, token |-> "", locks |-> lk]
    ELSE LET tok == IF reqToken = "" THEN newTok ELSE reqToken
         IN [status |-> 201, token |-> tok,
             locks |-> Put(lk, name, [token |-> tok, expires |-> now + lockTTL])]

\* a handleLock that forgets to refuse: a live lock of another owner is
\* replaced
lockBody_noRefusal(lk, name, reqToken, now, newTok) ==
    IF Has(lk, name) /\ Before(now, lk[name].expires)
       /\ reqToken # "" /\ reqToken = lk[name].token
    THEN [status |-> 200, token |-> lk[name].token,
          locks |-> Put(lk, name, [token |-> lk[name].token,
                                   expires |-> now + lockTTL])]
    ELSE LET tok == IF reqToken = "" THEN newTok ELSE reqToken
         IN [status |-> 201, token |-> tok,
             locks |-> Put(lk, name, [token |-> tok, expires |-> now + lockTTL])]

\* a handleLock whose refresh leaves the expiry where it was
lockBody_noExtend(lk, name, reqToken, now, newTok) ==
    IF Has(lk, name) /\ Before(now, lk[name].expires)
    THEN IF reqToken # "" /\ reqToken = lk[name].token
         THEN [status |-> 200, token |-> lk[name].token, locks |-> lk]
         ELSE [status |-> 423, token |-> "", locks |-> lk]
    ELSE LET tok == IF reqToken = "" THEN newTok ELSE reqToken
         IN [status |-> 201, token |-> tok,
             locks |-> Put(lk, name, [token |-> tok, expires |-> now + lockTTL])]

\* a handleLock whose refusal restarts the TTL of the lock it found
lockBody_refusalTouches(lk, name, reqToken, now, newTok) ==
    IF Has(lk, name) /\ Before(now, lk[name].expires)
    THEN IF reqToken # "" /\ reqToken = lk[name].token
         THEN [status |-> 200, token |-> lk[name].token,
               locks |-> Put(lk, name, [token |-> lk[name].token,
                                        expires |-> now + lockTTL])]
         ELSE [status |-> 423, token |-> "",
               locks |-> Put(lk, name, [token |-> lk[name].token,
                                        expires |-> now + lockTTL])]
    ELSE LET tok == IF reqToken = "" THEN newTok ELSE reqToken
         IN [status |-> 201, token |-> tok,
             locks |-> Put(lk, name, [token |-> tok, expires |-> now + lockTTL])]

\* a handleLock that installs the empty token of a request without one
lockBody_keepsEmpty(lk, name, reqToken, now, newTok) ==
    IF Has(lk, name) /\ Before(now, lk[name].expires)
    THEN IF reqToken # "" /\ reqToken = lk[name].token
         THEN [status |-> 200, token |-> lk[name].token,
               locks |-> Put(lk, name, [token |-> lk[name].token,
                                        expires |-> now + lockTTL])]
         ELSE [status |-> 423, token |-> "", locks |-> lk]
    ELSE [status |-> 201, token |-> reqToken,
          locks |-> Put(lk, name, [token |-> reqToken,
                                   expires |-> now + lockTTL])]

\* handleLock (main.go:386-407); newTok is what newToken() returns
lockBody(lk, name, reqToken, now, newTok) ==
    IF Has(lk, name) /\ Before(now, lk[name].expires)
    THEN IF reqToken # "" /\ reqToken = lk[name].token
         THEN [status |-> 200, token |-> lk[name].token,
               locks |-> Put(lk, name, [token |-> lk[name].token,
                                        expires |-> now + lockTTL])]
         ELSE [status |-> 423, token |-> "", locks |-> lk]
    ELSE LET tok == IF reqToken = "" THEN newTok ELSE reqToken
         IN [status |-> 201, token |-> tok,
             locks |-> Put(lk, name, [token |-> tok, expires |-> now + lockTTL])]

\* a handleUnlock that releases the lock whatever token is presented
unlockBody_anyToken(lk, name, tok) ==
    IF Has(lk, name)
    THEN [status |-> 204, locks |-> Delete(lk, name)]
    ELSE [status |-> 423, locks |-> lk]

\* handleUnlock (main.go:419-424)
unlockBody(lk, name, tok) ==
    IF Has(lk, name) /\ lk[name].token = tok
    THEN [status |-> 204, locks |-> Delete(lk, name)]
    ELSE [status |-> 423, locks |-> lk]

\* a hasValidLock that does not compare the token
hasValidLock_anyToken(lk, name0, tok, now) ==
    LET name == Base(name0)
    IN IF ~Has(lk, name) THEN [ok |-> FALSE, locks |-> lk]
       ELSE IF After(now, lk[name].expires)
            THEN [ok |-> FALSE, locks |-> Delete(lk, name)]
            ELSE [ok |-> TRUE, locks |-> lk]

\* a hasValidLock that leaves the expired lock in the table
hasValidLock_noEvict(lk, name0, tok, now) ==
    LET name == Base(name0)
    IN IF ~Has(lk, name) THEN [ok |-> FALSE, locks |-> lk]
       ELSE IF After(now, lk[name].expires)
            THEN [ok |-> FALSE, locks |-> lk]
            ELSE [ok |-> lk[name].token = tok, locks |-> lk]

\* hasValidLock (main.go:427-441)
hasValidLock(lk, name0, tok, now) ==
    LET name == Base(name0)
    IN IF ~Has(lk, name) THEN [ok |-> FALSE, locks |-> lk]
       ELSE IF After(now, lk[name].expires)
            THEN [ok |-> FALSE, locks |-> Delete(lk, name)]
            ELSE [ok |-> lk[name].token = tok, locks |-> lk]

\* a transferLock that leaves the lock of the old name in place
transferLock_keepsOld(lk, oldName0, newName0, tok, now) ==
    LET oldName == Base(oldName0)
        newName == Base(newName0)
    IN IF ~Has(lk, oldName) \/ lk[oldName].token # tok
          \/ After(now, lk[oldName].expires)
       THEN lk
       ELSE Put(lk, newName,
                [token |-> lk[oldName].token, expires |-> now + lockTTL])

\* a transferLock that does not look at the expiry
transferLock_ignoresExpiry(lk, oldName0, newName0, tok, now) ==
    LET oldName == Base(oldName0)
        newName == Base(newName0)
    IN IF ~Has(lk, oldName) \/ lk[oldName].token # tok
       THEN lk
       ELSE Put(Delete(lk, oldName), newName,
                [token |-> lk[oldName].token, expires |-> now + lockTTL])

\* transferLock (main.go:443-456)
transferLock(lk, oldName0, newName0, tok, now) ==
    LET oldName == Base(oldName0)
        newName == Base(newName0)
    IN IF ~Has(lk, oldName) \/ lk[oldName].token # tok
          \/ After(now, lk[oldName].expires)
       THEN lk
       ELSE Put(Delete(lk, oldName), newName,
                [token |-> lk[oldName].token, expires |-> now + lockTTL])

\* ------------------------------------------------------------------------
\* exportMarkdownTo (main.go:168-192)
\* ------------------------------------------------------------------------
headerHtml == <<"h","e","a","d","e","r">> \o dotHtml

footerHtml == <<"f","o","o","t","e","r">> \o dotHtml

\* what the converter process prints for a document: the external program is
\* not part of the repository, its output is kept distinct from its input
cmarkOutput(content) == <<"<", "p", ">">> \o content

\* os.ReadFile of an optional fragment of _includes: nothing when unreadable
fragment(inc, name) == IF Has(inc, name) THEN inc[name] ELSE <<>>

\* an exportMarkdownTo that leaves the footer out
exportMarkdownTo_noFooter(dir, inc, out, src, outName, runOk) ==
    IF ~EqualFold(Ext(src), dotMd) THEN [err |-> FALSE, docs |-> out]
    ELSE IF ~runOk \/ ~Has(dir, src) THEN [err |-> TRUE, docs |-> out]
    ELSE [err |-> FALSE,
          docs |-> Put(out, outName,
                       fragment(inc, headerHtml) \o cmarkOutput(dir[src]))]

\* an exportMarkdownTo that writes the fragments when the converter failed
exportMarkdownTo_ignoresFailure(dir, inc, out, src, outName, runOk) ==
    IF ~EqualFold(Ext(src), dotMd) THEN [err |-> FALSE, docs |-> out]
    ELSE IF ~runOk \/ ~Has(dir, src)
         THEN [err |-> TRUE,
               docs |-> Put(out, outName,
                            fragment(inc, headerHtml) \o fragment(inc, footerHtml))]
    ELSE [err |-> FALSE,
          docs |-> Put(out, outName,
                       fragment(inc, headerHtml) \o cmarkOutput(dir[src])
                           \o fragment(inc, footerHtml))]

\* the docs directory after the call, and whether the call returned nil;
\* runOk is false when MkdirAll or the converter fails
exportMarkdownTo(dir, inc, out, src, outName, runOk) ==
    IF ~EqualFold(Ext(src), dotMd) THEN [err |-> FALSE, docs |-> out]
    ELSE IF ~runOk \/ ~Has(dir, src) THEN [err |-> TRUE, docs |-> out]
    ELSE [err |-> FALSE,
          docs |-> Put(out, outName,
                       fragment(inc, headerHtml) \o cmarkOutput(dir[src])
                           \o fragment(inc, footerHtml))]

\* ------------------------------------------------------------------------
\* State
\* ------------------------------------------------------------------------
VARIABLES
    clock,      \* time.Now(), in ticks
    locks,      \* the map locks: name -> [token, expires]
    files,      \* the working directory: name -> bytes
    docs,       \* the docs directory: name -> bytes
    includes,   \* the _includes directory: name -> bytes
    cmarkPath,  \* "" when no converter was discovered at startup
    req,        \* per caller: the request being served and its response
    pre,        \* locks, files and docs when the request being served began
    nreq        \* the number of requests received, where it is bounded

vars == <<clock, locks, files, docs, includes, cmarkPath, req, pre, nreq>>

Callers == {"c1", "c2"}

\* documents and names the requests are drawn from
aMd == <<"a">> \o dotMd

bMd == <<"b">> \o dotMd

cMd == <<"c">> \o dotMd

evilMd == <<".", ".", "/">> \o aMd

bodyB == <<"#", " ", "B">>

bodyPlain == <<"x">>

LockFiles == {aMd, bMd}

\* the file parameter and the X-Filename header of a save
SaveFiles == {<<aMd, <<>>>>, <<bMd, <<>>>>, <<<<>>, aMd>>, <<<<>>, <<>>>>,
              <<evilMd, <<>>>>}

Bodies == {bodyB, bodyPlain}

\* the X-Lock values a request may present ("" is an absent header)
Tokens == {"", "t1", "t2"}

\* the values newToken() may return (main.go:458-462): never empty
GenTokens == {"t1", "t2"}

Methods == {"POST", "GET"}

NoReq == [pc |-> "idle", kind |-> "none", name |-> <<>>, name2 |-> <<>>,
          tok |-> "", data |-> <<>>, now |-> 0, target |-> <<>>,
          status |-> 0, out |-> <<>>, rtok |-> "", ok |-> FALSE]

NoSnapshot == [locks |-> EmptyMap, files |-> EmptyMap, docs |-> EmptyMap]

Snapshot == [locks |-> locks, files |-> files, docs |-> docs]

Idle(c) == req[c].pc = "idle"

Quiet == \A c \in Callers : Idle(c)

\* the response is written: it stays in req[c] until the handler returns
Done(r, status) == [r EXCEPT !.pc = "done", !.status = status]

Init ==
    /\ clock = 0
    /\ locks = EmptyMap
    /\ files \in {EmptyMap, Put(EmptyMap, bMd, bodyPlain)}
    /\ docs = EmptyMap
    /\ includes = Put(EmptyMap, headerHtml, <<"h">>)
    /\ cmarkPath \in {"", "cmark-gfm"}
    /\ req = [c \in Callers |-> NoReq]
    /\ pre = NoSnapshot
    /\ nreq = 0

\* locksMu (main.go:364-365).  Every function that locks it unlocks it when
\* it returns (defer locksMu.Unlock(), main.go:384, 417, 431, 448), and the
\* model runs what lies between as one step.  A handleSave is past the
\* return of hasValidLock at each of its later steps: SaveHolds is the set
\* of the steps at which it still holds locksMu.
SaveHolds_untilReturn ==
    {"saveResolve", "saveWrite", "saveRemoveOld", "saveRemoveOut", "saveExport"}

SaveHolds == {}

\* locksMu.Lock() returns
MutexFree ==
    \A d \in Callers : ~(req[d].kind = "save" /\ req[d].pc \in SaveHolds)

Tick ==
    /\ clock < MaxClock
    /\ clock' = clock + 1
    /\ UNCHANGED <<locks, files, docs, includes, cmarkPath, req, pre, nreq>>

\* the handler returns and the goroutine of the request ends
Return(c) ==
    /\ req[c].pc = "done"
    /\ req' = [req EXCEPT ![c] = NoReq]
    /\ pre' = NoSnapshot
    /\ UNCHANGED <<clock, locks, files, docs, includes, cmarkPath, nreq>>

\* ------------------------------------------------------------------------
\* POST /lock (handleLock, main.go:370-408)
\* ------------------------------------------------------------------------
\* up to the clock reading, before locksMu.Lock(); name2 keeps the file
\* parameter as it was sent
LockStart(c, snap, F, T) ==
    /\ Idle(c)
    /\ \/ \E method \in Methods \ {"POST"} :
             req' = [req EXCEPT ![c] = Done([NoReq EXCEPT !.kind = "lock"], 405)]
       \/ \E file \in F, tok \in T :
             LET name == Base(file)
                 r == [NoReq EXCEPT !.kind = "lock", !.name = name,
                                    !.name2 = file]
             IN req' = [req EXCEPT ![c] =
                           IF name = <<>> THEN Done(r, 400)
                           ELSE [r EXCEPT !.pc = "lockCS", !.tok = tok,
                                          !.now = clock]]
    /\ pre' = IF snap THEN Snapshot ELSE pre
    /\ UNCHANGED <<clock, locks, files, docs, includes, cmarkPath>>

\* the critical section and the response
LockCS(c) ==
    /\ req[c].pc = "lockCS"
    /\ MutexFree
    /\ \E newTok \in GenTokens :
          LET r == lockBody(locks, req[c].name, req[c].tok, req[c].now, newTok)
          IN /\ locks' = r.locks
             /\ req' = [req EXCEPT ![c] =
                           Done([req[c] EXCEPT !.rtok = r.token], r.status)]
    /\ UNCHANGED <<clock, files, docs, includes, cmarkPath, pre, nreq>>

\* ------------------------------------------------------------------------
\* POST /unlock (handleUnlock, main.go:410-425)
\* ------------------------------------------------------------------------
Unlock(c, snap, F, T) ==
    /\ Idle(c)
    /\ \/ \E method \in Methods \ {"POST"} :
             /\ req' = [req EXCEPT ![c] =
                           Done([NoReq EXCEPT !.kind = "unlock"], 405)]
             /\ locks' = locks
       \/ \E file \in F, tok \in T :
             LET name == Base(file)
                 r == [NoReq EXCEPT !.kind = "unlock", !.name = name,
                                    !.tok = tok]
                 u == unlockBody(locks, name, tok)
             IN /\ MutexFree
                /\ req' = [req EXCEPT ![c] = Done(r, u.status)]
                /\ locks' = u.locks
    /\ pre' = IF snap THEN Snapshot ELSE pre
    /\ UNCHANGED <<clock, files, docs, includes, cmarkPath>>

\* ------------------------------------------------------------------------
\* POST /save (handleSave, main.go:96-153), one action per step that reads
\* or writes shared state
\* ------------------------------------------------------------------------
\* main.go:101-107: the file query parameter, else X-Filename, else index.md
saveName(file, hdr) ==
    IF file # <<>> THEN file ELSE IF hdr # <<>> THEN hdr ELSE indexMd

ActiveSaves == {d \in Callers : req[d].kind = "save" /\ req[d].pc # "done"}

\* a handleSave without the base name check
SaveStart_noBaseCheck(c, snap, F, B, T) ==
    /\ Idle(c)
    /\ Cardinality(DOMAIN files) + Cardinality(ActiveSaves) < MaxFiles
    /\ \/ \E method \in Methods \ {"POST"} :
             req' = [req EXCEPT ![c] = Done([NoReq EXCEPT !.kind = "save"], 405)]
       \/ \E name \in {saveName(fh[1], fh[2]) : fh \in F} :
             LET r == [NoReq EXCEPT !.kind = "save", !.name = name]
             IN \/ req' = [req EXCEPT ![c] = Done(r, 400)]
                \/ \E data \in B, tok \in T :
                      req' = [req EXCEPT ![c] =
                                 [r EXCEPT !.pc = "saveCS", !.tok = tok,
                                           !.data = data, !.now = clock]]
    /\ pre' = IF snap THEN Snapshot ELSE pre
    /\ UNCHANGED <<clock, locks, files, docs, includes, cmarkPath>>

\* main.go:97-120 and the clock reading of hasValidLock (main.go:429); the
\* second 400 is io.ReadAll failing on the body
SaveStart(c, snap, F, B, T) ==
    /\ Idle(c)
    /\ Cardinality(DOMAIN files) + Cardinality(ActiveSaves) < MaxFiles
    /\ \/ \E method \in Methods \ {"POST"} :
             req' = [req EXCEPT ![c] = Done([NoReq EXCEPT !.kind = "save"], 405)]
       \/ \E name \in {saveName(fh[1], fh[2]) : fh \in F} :
             LET r == [NoReq EXCEPT !.kind = "save", !.name = name]
             IN IF Base(name) # name
                THEN req' = [req EXCEPT ![c] = Done(r, 400)]
                ELSE \/ req' = [req EXCEPT ![c] = Done(r, 400)]
                     \/ \E data \in B, tok \in T :
                           req' = [req EXCEPT ![c] =
                                      [r EXCEPT !.pc = "saveCS", !.tok = tok,
                                                !.data = data, !.now = clock]]
    /\ pre' = IF snap THEN Snapshot ELSE pre
    /\ UNCHANGED <<clock, locks, files, docs, includes, cmarkPath>>

\* main.go:121-124: the critical section of hasValidLock
SaveCS(c) ==
    /\ req[c].pc = "saveCS"
    /\ MutexFree
    /\ LET v == hasValidLock(locks, req[c].name, req[c].tok, req[c].now)
       IN /\ locks' = v.locks
          /\ req' = [req EXCEPT ![c] =
                        IF v.ok THEN [req[c] EXCEPT !.pc = "saveResolve"]
                        ELSE Done(req[c], 423)]
    /\ UNCHANGED <<clock, files, docs, includes, cmarkPath, pre, nreq>>

\* main.go:126-130: the target name; the os.Stat calls of uniqueAvailableName
\* see the directory of this step
SaveResolve(c) ==
    /\ req[c].pc = "saveResolve"
    /\ LET decided == decideFilenameFromContent(req[c].name, req[c].data)
           targetName == IF decided # req[c].name
                         THEN uniqueAvailableName(files, decided)
                         ELSE decided
       IN req' = [req EXCEPT ![c] =
                     [req[c] EXCEPT !.pc = "saveWrite", !.target = targetName]]
    /\ UNCHANGED <<clock, locks, files, docs, includes, cmarkPath, pre, nreq>>

\* a handleSave that removes the old document before it writes the target
SaveWrite_removesFirst(c) ==
    /\ req[c].pc = "saveWrite"
    /\ \E writeOk \in BOOLEAN :
          IF writeOk
          THEN /\ files' = Put(files, req[c].target, req[c].data)
               /\ req' = [req EXCEPT ![c] =
                             [req[c] EXCEPT !.pc =
                                 IF req[c].target # req[c].name
                                 THEN "saveRemoveOld" ELSE "saveExport"]]
          ELSE /\ files' = IF req[c].target # req[c].name
                           THEN Delete(files, req[c].name) ELSE files
               /\ req' = [req EXCEPT ![c] = Done(req[c], 500)]
    /\ UNCHANGED <<clock, locks, docs, includes, cmarkPath, pre, nreq>>

\* main.go:131-134: os.WriteFile, which the disk may refuse.  It fails
\* either before it opened the target, which leaves the directory as it
\* was, or after it created or truncated it: the target is then left with
\* part of the data, of which the empty file stands for every case
SaveWrite(c) ==
    /\ req[c].pc = "saveWrite"
    /\ \E writeOk \in BOOLEAN :
          IF writeOk
          THEN /\ files' = Put(files, req[c].target, req[c].data)
               /\ req' = [req EXCEPT ![c] =
                             [req[c] EXCEPT !.pc =
                                 IF req[c].target # req[c].name
                                 THEN "saveRemoveOld" ELSE "saveExport"]]
          ELSE /\ files' \in {files, Put(files, req[c].target, <<>>)}
               /\ req' = [req EXCEPT ![c] = Done(req[c], 500)]
    /\ UNCHANGED <<clock, locks, docs, includes, cmarkPath, pre, nreq>>

\* a cleanup that leaves the old document in place
SaveRemoveOld_keeps(c) ==
    /\ req[c].pc = "saveRemoveOld"
    /\ files' = files
    /\ req' = [req EXCEPT ![c] = [req[c] EXCEPT !.pc = "saveRemoveOut"]]
    /\ UNCHANGED <<clock, locks, docs, includes, cmarkPath, pre, nreq>>

\* main.go:136-137: os.Remove(name)
SaveRemoveOld(c) ==
    /\ req[c].pc = "saveRemoveOld"
    /\ files' = Delete(files, req[c].name)
    /\ req' = [req EXCEPT ![c] = [req[c] EXCEPT !.pc = "saveRemoveOut"]]
    /\ UNCHANGED <<clock, locks, docs, includes, cmarkPath, pre, nreq>>

\* a cleanup that leaves the old rendered output in place
SaveRemoveOut_keeps(c) ==
    /\ req[c].pc = "saveRemoveOut"
    /\ docs' = docs
    /\ req' = [req EXCEPT ![c] = [req[c] EXCEPT !.pc = "saveExport"]]
    /\ UNCHANGED <<clock, locks, files, includes, cmarkPath, pre, nreq>>

\* main.go:139-140: the old rendered output
SaveRemoveOut(c) ==
    /\ req[c].pc = "saveRemoveOut"
    /\ docs' = Delete(docs, htmlOutNameFor(files, Base(req[c].name)))
    /\ req' = [req EXCEPT ![c] = [req[c] EXCEPT !.pc = "saveExport"]]
    /\ UNCHANGED <<clock, locks, files, includes, cmarkPath, pre, nreq>>

\* a handleSave that answers 500 when the export returns an error
SaveExport_propagates(c) ==
    /\ req[c].pc = "saveExport"
    /\ \E runOk \in BOOLEAN :
          LET outName == htmlOutNameFor(files, Base(req[c].target))
              e == exportMarkdownTo(files, includes, docs, req[c].target,
                                    outName, runOk)
          IN /\ docs' = IF cmarkPath # "" THEN e.docs ELSE docs
             /\ req' = [req EXCEPT ![c] =
                           IF cmarkPath # "" /\ e.err THEN Done(req[c], 500)
                           ELSE Done([req[c] EXCEPT !.out = Base(req[c].target)],
                                     204)]
    /\ UNCHANGED <<clock, locks, files, includes, cmarkPath, pre, nreq>>

\* main.go:143-152: the export, when a converter was discovered, and the
\* response; an export error is only logged
SaveExport(c) ==
    /\ req[c].pc = "saveExport"
    /\ \E runOk \in BOOLEAN :
          LET outName == htmlOutNameFor(files, Base(req[c].target))
              e == exportMarkdownTo(files, includes, docs, req[c].target,
                                    outName, runOk)
          IN docs' = IF cmarkPath # "" THEN e.docs ELSE docs
    /\ req' = [req EXCEPT ![c] =
                  Done([req[c] EXCEPT !.out = Base(req[c].target)], 204)]
    /\ UNCHANGED <<clock, locks, files, includes, cmarkPath, pre, nreq>>

SaveStep(c) ==
    \/ SaveCS(c)
    \/ SaveResolve(c)
    \/ SaveWrite(c)
    \/ SaveRemoveOld(c)
    \/ SaveRemoveOut(c)
    \/ SaveExport(c)

\* ------------------------------------------------------------------------
\* hasValidLock and transferLock called on their own, as the tests of
\* main_test.go call them
\* ------------------------------------------------------------------------
\* main.go:428-429
ValidateStart(c, F, T) ==
    /\ Idle(c)
    /\ \E file \in F, tok \in T :
          req' = [req EXCEPT ![c] =
                     [NoReq EXCEPT !.pc = "validateCS", !.kind = "validate",
                                   !.name = file, !.tok = tok, !.now = clock]]
    /\ pre' = Snapshot
    /\ UNCHANGED <<clock, locks, files, docs, includes, cmarkPath>>

\* main.go:430-440
ValidateCS(c) ==
    /\ req[c].pc = "validateCS"
    /\ MutexFree
    /\ LET v == hasValidLock(locks, req[c].name, req[c].tok, req[c].now)
       IN /\ locks' = v.locks
          /\ req' = [req EXCEPT ![c] = [req[c] EXCEPT !.pc = "done", !.ok = v.ok]]
    /\ UNCHANGED <<clock, files, docs, includes, cmarkPath, pre, nreq>>

\* main.go:444-446
TransferStart(c, F, T) ==
    /\ Idle(c)
    /\ \E oldName \in F, newName \in F, tok \in T :
          req' = [req EXCEPT ![c] =
                     [NoReq EXCEPT !.pc = "transferCS", !.kind = "transfer",
                                   !.name = oldName, !.name2 = newName,
                                   !.tok = tok, !.now = clock]]
    /\ pre' = Snapshot
    /\ UNCHANGED <<clock, locks, files, docs, includes, cmarkPath>>

\* main.go:447-455
TransferCS(c) ==
    /\ req[c].pc = "transferCS"
    /\ MutexFree
    /\ locks' = transferLock(locks, req[c].name, req[c].name2, req[c].tok,
                             req[c].now)
    /\ req' = [req EXCEPT ![c] = [req[c] EXCEPT !.pc = "done"]]
    /\ UNCHANGED <<clock, files, docs, includes, cmarkPath, pre, nreq>>

\* ------------------------------------------------------------------------
\* The endpoints served one request at a time, no time passing within one
\* ------------------------------------------------------------------------
SerialCallers == {"c1"}

Serial == Quiet /\ nreq' = nreq

Next ==
    \/ Quiet /\ Tick
    \/ \E c \in SerialCallers :
          \/ Serial /\ LockStart(c, TRUE, LockFiles, Tokens)
          \/ Serial /\ Unlock(c, TRUE, LockFiles, Tokens)
          \/ Serial /\ SaveStart(c, TRUE, SaveFiles, Bodies, Tokens)
          \/ LockCS(c)
          \/ SaveStep(c)
          \/ Return(c)

Spec == Init /\ [][Next]_vars

\* ------------------------------------------------------------------------
\* The endpoints served concurrently, one goroutine per request.  Each caller
\* presents no token or its own and saves its own bodies, so that a file
\* shows who wrote it; MaxRequests requests are received in all.
\* ------------------------------------------------------------------------
bodyB2 == <<"#", " ", "B", " ">>

bodyPlain2 == <<"y">>

ConcLockFiles == {aMd, cMd}

ConcSaveFiles == {<<aMd, <<>>>>, <<cMd, <<>>>>}

ConcTokens(c) == IF c = "c1" THEN {"", "t1"} ELSE {"", "t2"}

ConcBodies(c) == IF c = "c1" THEN {bodyB, bodyPlain} ELSE {bodyB2, bodyPlain2}

InitConc ==
    /\ clock = 0
    /\ locks = EmptyMap
    /\ files = EmptyMap
    /\ docs = EmptyMap
    /\ includes = EmptyMap
    /\ cmarkPath = ""
    /\ req = [c \in Callers |-> NoReq]
    /\ pre = NoSnapshot
    /\ nreq = 0

Received == nreq < MaxRequests /\ nreq' = nreq + 1

NextConc ==
    \/ Tick
    \/ \E c \in Callers :
          \/ Received /\ LockStart(c, FALSE, ConcLockFiles, ConcTokens(c))
          \/ Received /\ Unlock(c, FALSE, ConcLockFiles, ConcTokens(c))
          \/ Received /\ SaveStart(c, FALSE, ConcSaveFiles, ConcBodies(c),
                                   ConcTokens(c))
          \/ LockCS(c)
          \/ SaveStep(c)
          \/ Return(c)

SpecConc == InitConc /\ [][NextConc]_vars

\* ------------------------------------------------------------------------
\* The lock table on its own: the lock endpoints and the two functions, one
\* call at a time
\* ------------------------------------------------------------------------
InitReg ==
    /\ clock = 0
    /\ locks = EmptyMap
    /\ files = EmptyMap
    /\ docs = EmptyMap
    /\ includes = EmptyMap
    /\ cmarkPath = ""
    /\ req = [c \in Callers |-> NoReq]
    /\ pre = NoSnapshot
    /\ nreq = 0

NextReg ==
    \/ Quiet /\ Tick
    \/ \E c \in SerialCallers :
          \/ Serial /\ LockStart(c, TRUE, LockFiles, Tokens)
          \/ Serial /\ Unlock(c, TRUE, LockFiles, Tokens)
          \/ Serial /\ ValidateStart(c, LockFiles, Tokens)
          \/ Serial /\ TransferStart(c, LockFiles, Tokens)
          \/ LockCS(c)
          \/ ValidateCS(c)
          \/ TransferCS(c)
          \/ Return(c)

SpecReg == InitReg /\ [][NextReg]_vars

\* ------------------------------------------------------------------------
\* POST /lock served concurrently
\* ------------------------------------------------------------------------
NextLock ==
    \/ Tick
    \/ \E c \in Callers :
          \/ nreq' = nreq /\ LockStart(c, FALSE, LockFiles, Tokens)
          \/ LockCS(c)
          \/ Return(c)

SpecLock == InitReg /\ [][NextLock]_vars

\* ------------------------------------------------------------------------
\* The text functions called on their own, as the tests of main_test.go call
\* them: slugify, extractTitle, decideFilenameFromContent
\* ------------------------------------------------------------------------
\* the strings over the alphabet A of length n at most
Strings(A, n) == UNION {[1..k -> A] : k \in 0..n}

\* a letter, an upper-case letter, a digit, and three separators, one of
\* them a letter outside ASCII
TitleAlphabet == {"a", "B", "1", "-", " ", "é"}

Titles == Strings(TitleAlphabet, MaxLen)

\* the lines documents are made of: headings of both forms, underlines,
\* text, and lines that only look like headings
DocLines == {<<>>, <<"#", " ", "A">>, <<"#", "A">>, <<"B">>, <<"=">>,
             <<" ", "#", " ", "C", " ">>, <<"B", "\r">>, <<" ", "=", "=">>}

RECURSIVE JoinLines(_)
JoinLines(ls) ==
    IF Len(ls) = 0 THEN <<>>
    ELSE IF Len(ls) = 1 THEN ls[1]
    ELSE ls[1] \o <<"\n">> \o JoinLines(Tail(ls))

Documents == {JoinLines(ls) : ls \in Strings(DocLines, MaxLines)}

AMd == <<"A">> \o dotMd

IndexMdMixed == <<"I","n","d","e","x">> \o dotMd

ReadmeMdUpper == <<"R","E","A","D","M","E">> \o dotMd

\* the current names of a document: handleSave lets base names through only
CurrentNames == {aMd, AMd, indexMd, IndexMdMixed, readmeMd, ReadmeMdUpper}

SlugifyCall(c) ==
    /\ Idle(c)
    /\ \E s \in Titles :
          req' = [req EXCEPT ![c] =
                     [NoReq EXCEPT !.pc = "done", !.kind = "slugify",
                                   !.data = s, !.out = slugify(s)]]
    /\ UNCHANGED <<clock, locks, files, docs, includes, cmarkPath, pre, nreq>>

ExtractCall(c) ==
    /\ Idle(c)
    /\ \E content \in Documents :
          req' = [req EXCEPT ![c] =
                     [NoReq EXCEPT !.pc = "done", !.kind = "extract",
                                   !.data = content,
                                   !.out = extractTitle(content)]]
    /\ UNCHANGED <<clock, locks, files, docs, includes, cmarkPath, pre, nreq>>

DecideCall(c) ==
    /\ Idle(c)
    /\ \E current \in CurrentNames, content \in Documents :
          req' = [req EXCEPT ![c] =
                     [NoReq EXCEPT !.pc = "done", !.kind = "decide",
                                   !.name = current, !.data = content,
                                   !.out = decideFilenameFromContent(current,
                                                                     content)]]
    /\ UNCHANGED <<clock, locks, files, docs, includes, cmarkPath, pre, nreq>>

NextFn ==
    \E c \in SerialCallers :
        \/ SlugifyCall(c)
        \/ ExtractCall(c)
        \/ DecideCall(c)
        \/ Return(c)

SpecFn == InitReg /\ [][NextFn]_vars

\* ------------------------------------------------------------------------
\* The reserved names: decideFilenameFromContent on its own before the first
\* request (its result depends on its arguments only), then MaxRequests
\* requests served one at a time on index.md, README.md and a.md, all
\* within one tick of the clock
\* ------------------------------------------------------------------------
ReservedLockFiles == {indexMd, ReadmeMdUpper, aMd}

\* no name at all is index.md (main.go:105-107)
ReservedSaveFiles == {<<<<>>, <<>>>>, <<ReadmeMdUpper, <<>>>>, <<aMd, <<>>>>}

OwnTokens == {"t1"}

NextReserved ==
    \E c \in SerialCallers :
        \/ Quiet /\ nreq = 0 /\ DecideCall(c)
        \/ Quiet /\ Received /\ LockStart(c, TRUE, ReservedLockFiles, OwnTokens)
        \/ Quiet /\ Received /\ SaveStart(c, TRUE, ReservedSaveFiles, Bodies,
                                          OwnTokens)
        \/ LockCS(c)
        \/ SaveStep(c)
        \/ Return(c)

SpecReserved == Init /\ [][NextReserved]_vars

\* ------------------------------------------------------------------------
\* Renaming Saves and the rendered output: a.md, and b.new, a name as POST
\* /new hands out (main.go:467), in a working directory that may hold
\* documents and rendered outputs of earlier runs; MaxRequests requests
\* served one at a time, all within one tick of the clock
\* ------------------------------------------------------------------------
bNew == <<"b", ".", "n", "e", "w">>

aHtml == <<"a">> \o dotHtml

bHtml == <<"b">> \o dotHtml

staleHtml == <<"o", "l", "d">>

CleanupLockFiles == {aMd, bNew}

CleanupSaveFiles == {<<aMd, <<>>>>, <<bNew, <<>>>>}

InitCleanup ==
    /\ clock = 0
    /\ locks = EmptyMap
    /\ \E dirs \in
          {<<EmptyMap, EmptyMap>>,
           <<Put(EmptyMap, aMd, bodyPlain), Put(EmptyMap, aHtml, staleHtml)>>,
           <<Put(EmptyMap, bNew, bodyPlain), Put(EmptyMap, bHtml, staleHtml)>>} :
          files = dirs[1] /\ docs = dirs[2]
    /\ includes = Put(EmptyMap, headerHtml, <<"h">>)
    /\ cmarkPath \in {"", "cmark-gfm"}
    /\ req = [c \in Callers |-> NoReq]
    /\ pre = NoSnapshot
    /\ nreq = 0

NextCleanup ==
    \E c \in SerialCallers :
        \/ Quiet /\ Received /\ LockStart(c, TRUE, CleanupLockFiles, OwnTokens)
        \/ Quiet /\ Received /\ SaveStart(c, TRUE, CleanupSaveFiles, Bodies,
                                          OwnTokens)
        \/ LockCS(c)
        \/ SaveStep(c)
        \/ Return(c)

SpecCleanup == InitCleanup /\ [][NextCleanup]_vars

\* ------------------------------------------------------------------------
\* uniqueAvailableName called on its own, on the directories of InitNames
\* ------------------------------------------------------------------------
bName == <<"b">>

BMd == <<"B">> \o dotMd

\* b-k.md
bNumbered(k) == <<"b", "-">> \o Itoa(k) \o dotMd

DirNames == {bMd, BMd, bName} \cup {bNumbered(k) : k \in 1..MaxSuffix}

Directories ==
    {[n \in D |-> bodyPlain] : D \in SUBSET DirNames}
        \cup {[n \in {bMd} \cup {bNumbered(k) : k \in 1..LongRun} |-> bodyPlain]}

PreferredNames == {bMd, aMd, bName}

InitNames ==
    /\ clock = 0
    /\ locks = EmptyMap
    /\ files \in Directories
    /\ docs = EmptyMap
    /\ includes = EmptyMap
    /\ cmarkPath = ""
    /\ req = [c \in Callers |-> NoReq]
    /\ pre = NoSnapshot
    /\ nreq = 0

UniqueCall(c) ==
    /\ Idle(c)
    /\ \E preferred \in PreferredNames :
          req' = [req EXCEPT ![c] =
                     [NoReq EXCEPT !.pc = "done", !.kind = "unique",
                                   !.name = preferred,
                                   !.out = uniqueAvailableName(files, preferred)]]
    /\ UNCHANGED <<clock, locks, files, docs, includes, cmarkPath, pre, nreq>>

NextNames ==
    \E c \in SerialCallers :
        \/ UniqueCall(c)
        \/ Return(c)

SpecNames == InitNames /\ [][NextNames]_vars

\* ------------------------------------------------------------------------
\* htmlOutNameFor called on its own, as TestHtmlOutNameFor calls it, in
\* working directories that hold index.md under either spelling, a file
\* named index, and a.md
\* ------------------------------------------------------------------------
indexName == <<"i","n","d","e","x">>

aBMd == <<"a", ".", "b">> \o dotMd

OutDirNames == {indexMd, IndexMdMixed, indexName, aMd}

OutDirectories == {[n \in D |-> bodyPlain] : D \in SUBSET OutDirNames}

OutNames == {readmeMd, ReadmeMdUpper, indexMd, aMd, AMd, aBMd, bNew, bName}

InitOut ==
    /\ clock = 0
    /\ locks = EmptyMap
    /\ files \in OutDirectories
    /\ docs = EmptyMap
    /\ includes = EmptyMap
    /\ cmarkPath = ""
    /\ req = [c \in Callers |-> NoReq]
    /\ pre = NoSnapshot
    /\ nreq = 0

OutNameCall(c) ==
    /\ Idle(c)
    /\ \E mdBase \in OutNames :
          req' = [req EXCEPT ![c] =
                     [NoReq EXCEPT !.pc = "done", !.kind = "outname",
                                   !.name = mdBase,
                                   !.out = htmlOutNameFor(files, mdBase)]]
    /\ UNCHANGED <<clock, locks, files, docs, includes, cmarkPath, pre, nreq>>

NextOut ==
    \E c \in SerialCallers :
        \/ OutNameCall(c)
        \/ Return(c)

SpecOut == InitOut /\ [][NextOut]_vars

\* ------------------------------------------------------------------------
\* exportMarkdownTo called on its own, as the tests of main_test.go call it:
\* every combination of the two fragments of _includes, sources with and
\* without the .md extension, a source that does not exist, and an output
\* that an earlier run may have left
\* ------------------------------------------------------------------------
aMdUpperExt == <<"a", ".", "M", "D">>

ExportSources == {aMd, aMdUpperExt, bNew, cMd}

ExportOutputs == {aHtml, bHtml}

IncludeSets ==
    {[n \in D |-> IF n = headerHtml THEN <<"h">> ELSE <<"f">>] :
        D \in SUBSET {headerHtml, footerHtml}}

InitExport ==
    /\ clock = 0
    /\ locks = EmptyMap
    /\ files = [n \in {aMd, aMdUpperExt, bNew} |->
                   IF n = aMd THEN bodyPlain ELSE bodyB]
    /\ docs \in {EmptyMap, Put(EmptyMap, aHtml, staleHtml)}
    /\ includes \in IncludeSets
    /\ cmarkPath = "cmark-gfm"
    /\ req = [c \in Callers |-> NoReq]
    /\ pre = NoSnapshot
    /\ nreq = 0

\* tok records how the converter process ended, ok that the call returned nil
ExportCall(c) ==
    /\ Idle(c)
    /\ \E src \in ExportSources, outName \in ExportOutputs, runOk \in BOOLEAN :
          LET e == exportMarkdownTo(files, includes, docs, src, outName, runOk)
          IN /\ docs' = e.docs
             /\ req' = [req EXCEPT ![c] =
                           [NoReq EXCEPT !.pc = "done", !.kind = "export",
                                         !.name = src, !.name2 = outName,
                                         !.tok = IF runOk /\ Has(files, src)
                                                 THEN "exit0" ELSE "failed",
                                         !.ok = ~e.err]]
    /\ pre' = Snapshot
    /\ UNCHANGED <<clock, locks, files, includes, cmarkPath, nreq>>

NextExport ==
    \E c \in SerialCallers :
        \/ ExportCall(c)
        \/ Return(c)

SpecExport == InitExport /\ [][NextExport]_vars

\* ------------------------------------------------------------------------
\* The refresh timer of the client (minimark.js:124-133): the editor of
\* a.md posts /lock with its token every 500 ms, that is once in every tick,
\* and the clock moves on only when the request of this tick is answered.
\* The requests of everybody else, among them the Saves that carry the
\* editor's token, are served concurrently and may take any time; MaxRequests
\* of them are received.
\* ------------------------------------------------------------------------
Editor == "c1"

EditorToken == "t1"

EditedFiles == {aMd}

OtherTokens == Tokens \ {EditorToken}

RefreshedThisTick ==
    /\ req[Editor].pc = "done" /\ req[Editor].kind = "lock"
    /\ req[Editor].status \in {200, 201, 423}
    /\ req[Editor].now = clock

NextRefresh ==
    \/ RefreshedThisTick /\ Tick
    \/ nreq' = nreq /\ LockStart(Editor, FALSE, EditedFiles, {EditorToken})
    \/ \E c \in Callers \ {Editor} :
          \/ Received /\ LockStart(c, FALSE, EditedFiles, OtherTokens)
          \/ Received /\ Unlock(c, FALSE, EditedFiles, OtherTokens)
          \/ Received /\ SaveStart(c, FALSE, {<<f, <<>>>> : f \in EditedFiles},
                                   Bodies, {EditorToken})
    \/ \E c \in Callers :
          \/ LockCS(c)
          \/ SaveStep(c)
          \/ Return(c)

SpecRefresh == InitReg /\ [][NextRefresh]_vars

\* ------------------------------------------------------------------------
\* A converter that hangs: the Saves of one caller, which holds the lock of
\* a.md, reach the export and may stay there for ever (no step of the model
\* has to be taken), while the other caller acquires, refreshes and
\* releases on a.md and on c.md and saves on a.md; MaxRequests requests are
\* received, and time is let pass while a Save is at its export
\* ------------------------------------------------------------------------
Exporter == "c1"

ExporterTokens == {"t1"}

ExporterFiles == {aMd}

ExporterBodies == {bodyPlain, bodyB}

InitStuck ==
    /\ clock = 0
    /\ locks = EmptyMap
    /\ files = EmptyMap
    /\ docs = EmptyMap
    /\ includes = EmptyMap
    /\ cmarkPath = "cmark-gfm"
    /\ req = [c \in Callers |-> NoReq]
    /\ pre = NoSnapshot
    /\ nreq = 0

Exporting == \E c \in Callers : req[c].pc = "saveExport"

NextStuck ==
    \/ Exporting /\ Tick
    \/ Received /\ LockStart(Exporter, FALSE, ExporterFiles, ExporterTokens)
    \/ Received /\ SaveStart(Exporter, FALSE,
                             {<<f, <<>>>> : f \in ExporterFiles},
                             ExporterBodies, ExporterTokens)
    \/ \E c \in Callers \ {Exporter} :
          \/ Received /\ LockStart(c, FALSE, ConcLockFiles, ConcTokens(c))
          \/ Received /\ Unlock(c, FALSE, ConcLockFiles, ExporterTokens)
          \/ Received /\ SaveStart(c, FALSE,
                                   {<<f, <<>>>> : f \in ExporterFiles},
                                   {bodyPlain2}, ExporterTokens)
    \/ \E c \in Callers :
          \/ LockCS(c)
          \/ SaveStep(c)
          \/ Return(c)

SpecStuck == InitStuck /\ [][NextStuck]_vars

\* ------------------------------------------------------------------------
\* POST /lock with and without a file parameter, one request at a time
\* ------------------------------------------------------------------------
noFile == <<>>

MissingLockFiles == {noFile, aMd}

NextMissing ==
    \/ Quiet /\ Tick
    \/ \E c \in SerialCallers :
          \/ Serial /\ LockStart(c, TRUE, MissingLockFiles, Tokens)
          \/ LockCS(c)
          \/ Return(c)

SpecMissing == InitReg /\ [][NextMissing]_vars

\* ------------------------------------------------------------------------
\* Two names with one output name: a.md, rendered to docs/a.html by an
\* earlier run, and a.new; MaxRequests requests served one at a time, all
\* within one tick of the clock
\* ------------------------------------------------------------------------
aNew == <<"a", ".", "n", "e", "w">>

SharedLockFiles == {aMd, aNew}

SharedSaveFiles == {<<aMd, <<>>>>, <<aNew, <<>>>>}

InitShared ==
    /\ clock = 0
    /\ locks = EmptyMap
    /\ \E dirs \in
          {<<EmptyMap, EmptyMap>>,
           <<Put(EmptyMap, aMd, bodyPlain), Put(EmptyMap, aHtml, staleHtml)>>} :
          files = dirs[1] /\ docs = dirs[2]
    /\ includes = EmptyMap
    /\ cmarkPath \in {"", "cmark-gfm"}
    /\ req = [c \in Callers |-> NoReq]
    /\ pre = NoSnapshot
    /\ nreq = 0

NextShared ==
    \E c \in SerialCallers :
        \/ Quiet /\ Received /\ LockStart(c, TRUE, SharedLockFiles, OwnTokens)
        \/ Quiet /\ Received /\ SaveStart(c, TRUE, SharedSaveFiles, Bodies,
                                          OwnTokens)
        \/ LockCS(c)
        \/ SaveStep(c)
        \/ Return(c)

SpecShared == InitShared /\ [][NextShared]_vars

\* ------------------------------------------------------------------------
\* Properties
\* ------------------------------------------------------------------------
Abs(x) == IF x < 0 THEN -x ELSE x

\* caller c has the response of a request of this kind
Answered(c, kind) == req[c].pc = "done" /\ req[c].kind = kind

\* an Acquire(n, ""): a lock request without a token that reached the table
AcquiredEmpty(c) ==
    Answered(c, "lock") /\ req[c].tok = "" /\ req[c].status \in {200, 201, 423}

\* C1.  Two callers issue Acquire(n, "") with less than TTL between their
\* clock readings.  The one that finds no live lock for n is Created with a
\* token; the one that enters the table while the lock the other was Created
\* with is still as installed is Refused.  Both are never Created.
C1_ExactlyOneCreated ==
    [][\A c \in Callers :
          (req[c].pc = "lockCS" /\ req'[c].pc = "done" /\ req[c].tok = "") =>
             LET n == req[c].name
             IN /\ (~Has(locks, n) \/ req[c].now >= locks[n].expires) =>
                       /\ req'[c].status = 201
                       /\ req'[c].rtok # ""
                       /\ locks'[n].token = req'[c].rtok
                /\ \A d \in Callers \ {c} :
                      ( /\ AcquiredEmpty(d) /\ req[d].name = n
                        /\ req[d].status = 201
                        /\ Has(locks, n)
                        /\ locks[n] = [token |-> req[d].rtok,
                                       expires |-> req[d].now + lockTTL]
                        /\ Abs(req[c].now - req[d].now) < lockTTL )
                      => req'[c].status = 423 /\ locks' = locks]_vars

\* both callers have their answers: one Created, the other Refused
C1_Witness ==
    /\ AcquiredEmpty("c1") /\ AcquiredEmpty("c2")
    /\ req["c1"].name = req["c2"].name
    /\ req["c1"].status = 201 /\ req["c2"].status = 423
    /\ req["c1"].now # req["c2"].now

\* the lock table lk holds for n a lock with exactly this token that the
\* clock reading `now` is not after
HoldsLock(lk, n, tok, now) ==
    Has(lk, n) /\ lk[n].token = tok /\ ~(now > lk[n].expires)

SavePastValidation(c) ==
    /\ req[c].kind = "save"
    /\ req[c].pc \in {"saveResolve", "saveWrite", "saveRemoveOld",
                      "saveRemoveOut", "saveExport"}

\* C2.  A Save on incoming name n goes past validation only when the lock
\* table holds an unexpired lock for n with exactly the presented token;
\* otherwise it is answered 423, and a Save answered 423 has changed no
\* document and no rendered output.  (Unexpired as Validate reads it: the
\* clock reading of the request is not after the expiry.)
C2_SaveRequiresLock ==
    \A c \in Callers :
        LET held == HoldsLock(pre.locks, req[c].name, req[c].tok, req[c].now)
        IN /\ SavePastValidation(c) => held
           /\ (Answered(c, "save") /\ req[c].status \in {204, 500}) => held
           /\ (Answered(c, "save") /\ req[c].status = 423) =>
                 ~held /\ files = pre.files /\ docs = pre.docs

\* a Save refused while another token holds a live lock on its name
C2_Witness ==
    \E c \in Callers :
        /\ Answered(c, "save") /\ req[c].status = 423
        /\ Has(pre.locks, req[c].name)
        /\ pre.locks[req[c].name].token # req[c].tok
        /\ req[c].tok # ""
        /\ req[c].now < pre.locks[req[c].name].expires

\* another token than tok holds a lock on n that is live at this instant
HeldByAnother(n, tok) ==
    Has(locks, n) /\ locks[n].token # tok /\ clock < locks[n].expires

\* C3.  Writes to one name are serialized by the lock: no Save writes to its
\* name n with its token at an instant at which another token holds the live
\* lock on n, also when the Save passed its validation before its own lock
\* expired.
C3_WritesSerializedByLock ==
    [][\A c \in Callers :
          ( /\ req[c].pc = "saveWrite"
            /\ req'[c].pc \in {"saveRemoveOld", "saveExport"}
            /\ req[c].target = req[c].name )
          => ~HeldByAnother(req[c].name, req[c].tok)]_vars

\* a Save answered 204 that wrote under a new name
Renamed(c) ==
    Answered(c, "save") /\ req[c].status = 204 /\ req[c].out # req[c].name

\* C4.  Two Saves on different incoming names that both rename end with
\* distinct final names: neither writes the file the other wrote.
C4_RenamesNeverCollide ==
    \A c \in Callers, d \in Callers :
        (c # d /\ Renamed(c) /\ Renamed(d) /\ req[c].name # req[d].name)
        => req[c].out # req[d].out

\* C5.  After a Save with token t that renamed n to m, the lock table has no
\* lock for n and a lock for m with token t and expiry now + TTL: Validate
\* accepts t for m and not for n.
C5_LockTransferred ==
    \A c \in Callers :
        Renamed(c) =>
            /\ ~Has(locks, req[c].name)
            /\ Has(locks, req[c].out)
            /\ locks[req[c].out] = [token |-> req[c].tok,
                                    expires |-> req[c].now + lockTTL]
            /\ hasValidLock(locks, req[c].out, req[c].tok, clock).ok
            /\ ~hasValidLock(locks, req[c].name, req[c].tok, clock).ok

\* the final name the claims expect of a Save of data on name, given the
\* working directory it found
FinalName(dir, name, data) ==
    LET decided == decideFilenameFromContent(name, data)
    IN IF decided = name THEN name ELSE uniqueAvailableName(dir, decided)

\* C6.  A Save with a valid lock on n and body b, whose write the disk does
\* not refuse, is answered 204 with the final name f: n when no rename
\* applies, else a name that was free; afterwards f holds exactly b and,
\* when f differs from n, n no longer exists.
C6_EndToEndSave ==
    \A c \in Callers :
        ( /\ Answered(c, "save")
          /\ HoldsLock(pre.locks, req[c].name, req[c].tok, req[c].now)
          /\ req[c].status # 500 )
        => /\ req[c].status = 204
           /\ req[c].out = FinalName(pre.files, req[c].name, req[c].data)
           /\ Has(files, req[c].out)
           /\ files[req[c].out] = req[c].data
           /\ req[c].out # req[c].name =>
                 /\ ~Has(pre.files, req[c].out)
                 /\ ~Has(files, req[c].name)

\* a renaming Save answered, whose old document existed
C6_Witness ==
    \E c \in Callers :
        /\ Renamed(c)
        /\ Has(pre.files, req[c].name)
        /\ files[req[c].out] = req[c].data

\* C7.  Validate(n, tok) is true right after Acquire(n, "") returned tok,
\* and false whenever TTL or more has elapsed since the last Acquire or
\* Refresh of n.
C7_ValidUntilTTL ==
    \A c \in Callers :
        /\ (AcquiredEmpty(c) /\ req[c].status = 201) =>
              hasValidLock(locks, req[c].name, req[c].rtok, clock).ok
        /\ ( /\ Answered(c, "validate")
             /\ Has(pre.locks, req[c].name)
             /\ req[c].now >= pre.locks[req[c].name].expires )
           => ~req[c].ok

\* C8.  Transfer(old, new, tok) on distinct names, old holding an unexpired
\* lock with token tok: afterwards Validate(old, tok) is false,
\* Validate(new, tok) is true and the lock of new has the token tok and the
\* expiry now + TTL.
C8_TransferMovesLock ==
    \A c \in Callers :
        ( /\ Answered(c, "transfer")
          /\ req[c].name # req[c].name2
          /\ HoldsLock(pre.locks, req[c].name, req[c].tok, req[c].now) )
        => /\ ~hasValidLock(locks, req[c].name, req[c].tok, clock).ok
           /\ hasValidLock(locks, req[c].name2, req[c].tok, clock).ok
           /\ locks[req[c].name2] = [token |-> req[c].tok,
                                     expires |-> req[c].now + lockTTL]

\* a transfer has acted on a held lock, onto a name another token had locked
C8_Witness ==
    \E c \in Callers :
        /\ Answered(c, "transfer")
        /\ req[c].name # req[c].name2
        /\ HoldsLock(pre.locks, req[c].name, req[c].tok, req[c].now)
        /\ pre.locks[req[c].name].expires < req[c].now + lockTTL
        /\ Has(pre.locks, req[c].name2)

\* a Save that has written its target
HasWritten(c) ==
    \/ req[c].kind = "save" /\ req[c].pc \in {"saveRemoveOld", "saveRemoveOut",
                                              "saveExport"}
    \/ Answered(c, "save") /\ req[c].status = 204

\* C9.  A Save writes to a name only while its caller holds the lock on it:
\* a renaming Save never writes to a target on which a different token
\* holds a live lock.
C9_NoWriteUnderForeignLock ==
    \A c \in Callers :
        (HasWritten(c) /\ req[c].target # req[c].name)
        => ~HeldByAnother(req[c].target, req[c].tok)

\* C10.  An Acquire of n by another token than the owner's, issued once TTL
\* has elapsed since the owner's last Acquire or Refresh, is Created and
\* installs the new token, with no release or Validate in between.
C10_AcquireAfterTTL ==
    \A c \in Callers :
        ( /\ Answered(c, "lock") /\ req[c].status \in {200, 201, 423}
          /\ Has(pre.locks, req[c].name)
          /\ pre.locks[req[c].name].token # req[c].tok
          /\ req[c].now >= pre.locks[req[c].name].expires )
        => /\ req[c].status = 201
           /\ req[c].rtok # ""
           /\ req[c].tok # "" => req[c].rtok = req[c].tok
           /\ locks[req[c].name] = [token |-> req[c].rtok,
                                    expires |-> req[c].now + lockTTL]

\* the expired lock of another owner was still in the table and is replaced
\* at the very instant of its expiry
C10_Witness ==
    \E c \in Callers :
        /\ Answered(c, "lock") /\ req[c].status = 201
        /\ Has(pre.locks, req[c].name)
        /\ pre.locks[req[c].name].token # req[c].tok
        /\ req[c].now = pre.locks[req[c].name].expires

\* the position of the final dot of a name, past its end when it has none
LastDot(name) ==
    IF \E i \in 1..Len(name) : name[i] = "."
    THEN CHOOSE i \in 1..Len(name) :
             name[i] = "." /\ \A j \in (i+1)..Len(name) : name[j] # "."
    ELSE Len(name) + 1

\* name with -k inserted before its extension
Numbered(name, k) ==
    SubSeq(name, 1, LastDot(name) - 1) \o <<"-">> \o Itoa(k)
        \o SubSeq(name, LastDot(name), Len(name))

\* C11.  uniqueAvailableName(desired) on a finite directory returns a name
\* that no file has: desired itself when no file has that name, otherwise
\* desired numbered with the least k >= 1 whose name no file has.
C11_UniqueName ==
    \A c \in Callers :
        Answered(c, "unique") =>
            LET desired == req[c].name
                got == req[c].out
            IN /\ ~Has(files, got)
               /\ ~Has(files, desired) => got = desired
               /\ Has(files, desired) =>
                     \E k \in 1..(Cardinality(DOMAIN files) + 1) :
                         /\ got = Numbered(desired, k)
                         /\ \A j \in 1..(k-1) : Has(files, Numbered(desired, j))

\* b.md and b-1.md .. b-10.md exist: the answer is b-11.md
C11_Witness ==
    \E c \in Callers :
        /\ Answered(c, "unique")
        /\ req[c].name = bMd
        /\ Has(files, <<"b", "-", "1", "0", ".", "m", "d">>)
        /\ req[c].out = <<"b", "-", "1", "1", ".", "m", "d">>

\* the name lower-cases to one of the two reserved names
Reserved(name) == ToLower(name) \in {indexMd, readmeMd}

\* C12.  For a current name that is not reserved, Resolve returns the
\* current name when the extracted title is empty, when its slug is empty,
\* or when slug + ".md" is the current name, and slug + ".md" in every
\* other case.
C12_ResolveFromTitle ==
    \A c \in Callers :
        (Answered(c, "decide") /\ ~Reserved(req[c].name)) =>
            LET title == extractTitle(req[c].data)
                slug  == slugify(title)
            IN IF title = <<>> \/ slug = <<>> \/ slug \o dotMd = req[c].name
               THEN req[c].out = req[c].name
               ELSE req[c].out = slug \o dotMd

\* a title of separators only: its slug is empty and the name is kept
C12_Witness ==
    \E c \in Callers :
        /\ Answered(c, "decide") /\ ~Reserved(req[c].name)
        /\ extractTitle(req[c].data) # <<>>
        /\ slugify(extractTitle(req[c].data)) = <<>>
        /\ req[c].out = req[c].name

\* C13.  A name that lower-cases to index.md or readme.md is never renamed:
\* Resolve returns it for every content, a Save on it writes to it, reports
\* it, and deletes no document and no rendered output.
C13_ReservedNeverRenamed ==
    \A c \in Callers :
        /\ (Answered(c, "decide") /\ Reserved(req[c].name)) =>
              req[c].out = req[c].name
        /\ (req[c].kind = "save" /\ Reserved(req[c].name)) =>
              /\ req[c].pc \notin {"saveRemoveOld", "saveRemoveOut"}
              /\ req[c].pc \in {"saveWrite", "saveExport"} =>
                    req[c].target = req[c].name
              /\ (req[c].pc = "done" /\ req[c].status = 204) =>
                    /\ req[c].out = req[c].name
                    /\ DOMAIN pre.files \subseteq DOMAIN files
                    /\ DOMAIN pre.docs \subseteq DOMAIN docs
                    /\ files[req[c].name] = req[c].data

\* README.md saved with a first-level heading while index.md and a rendered
\* output exist
C13_Witness ==
    \E c \in Callers :
        /\ Answered(c, "save") /\ req[c].status = 204
        /\ req[c].name = ReadmeMdUpper
        /\ extractTitle(req[c].data) # <<>>
        /\ Has(pre.files, indexMd)
        /\ pre.docs # EmptyMap

\* C14.  Release(name, token) removes the lock of name, and nothing else,
\* and answers 204 iff the table has a lock for name with exactly this token;
\* otherwise it answers 423 and the lock table is as it was.
C14_ReleaseOnlyByOwner ==
    \A c \in Callers :
        (Answered(c, "unlock") /\ req[c].status # 405) =>
            LET n == req[c].name
            IN IF Has(pre.locks, n) /\ pre.locks[n].token = req[c].tok
               THEN req[c].status = 204 /\ locks = Delete(pre.locks, n)
               ELSE req[c].status = 423 /\ locks = pre.locks

\* a release refused: another token holds the lock, which stays as it was
C14_Witness ==
    \E c \in Callers :
        /\ Answered(c, "unlock") /\ req[c].status = 423
        /\ Has(pre.locks, req[c].name)
        /\ req[c].tok # ""
        /\ locks[req[c].name] = pre.locks[req[c].name]

\* the lock table lk has for n a lock that the clock reading `now` is before
\* the expiry of
Live(lk, n, now) == Has(lk, n) /\ now < lk[n].expires

\* C15.  Acquire on a name with no live lock is Created: it installs and
\* returns the proposed token when there is one, a generated token
\* otherwise, with expiry now + TTL.  Acquire with the owner's token on a
\* live lock is OK: same token, expiry now + TTL.
C15_AcquireAndRefresh ==
    \A c \in Callers :
        (Answered(c, "lock") /\ req[c].status \notin {400, 405}) =>
            LET n == req[c].name
                granted == Put(pre.locks, n, [token |-> req[c].rtok,
                                              expires |-> req[c].now + lockTTL])
            IN /\ ~Live(pre.locks, n, req[c].now) =>
                     /\ req[c].status = 201
                     /\ req[c].tok # "" => req[c].rtok = req[c].tok
                     /\ req[c].tok = "" => req[c].rtok \in GenTokens
                     /\ locks = granted
               /\ (Live(pre.locks, n, req[c].now)
                      /\ req[c].tok = pre.locks[n].token) =>
                     /\ req[c].status = 200
                     /\ req[c].rtok = req[c].tok
                     /\ locks = granted

\* a refresh that moved the expiry forward
C15_Witness ==
    \E c \in Callers :
        /\ Answered(c, "lock") /\ req[c].status = 200
        /\ pre.locks[req[c].name].expires < req[c].now + lockTTL
        /\ locks[req[c].name].expires = req[c].now + lockTTL

\* the steps of a Save after os.WriteFile succeeded
PastWrite == {"saveRemoveOld", "saveRemoveOut", "saveExport"}

\* C16.  Once the write of the target succeeded, every further step of the
\* Save leads to the answer 204 with the final name, the written document
\* untouched, whether the export succeeds, fails or is skipped.
C16_ExportNeverFailsSave ==
    [][\A c \in Callers :
          (req[c].pc \in PastWrite /\ req'[c] # req[c]) =>
             /\ req'[c].pc \in PastWrite \cup {"done"}
             /\ req'[c].target = req[c].target
             /\ Has(files', req[c].target)
             /\ files'[req[c].target] = req[c].data
             /\ req[c].pc = "saveExport" =>
                   /\ req'[c].pc = "done"
                   /\ req'[c].status = 204
                   /\ req'[c].out = req[c].target]_vars

\* a Save answered 204 although a converter was discovered and the rendered
\* output of its document was not produced
C16_Witness ==
    \E c \in Callers :
        /\ Answered(c, "save") /\ req[c].status = 204
        /\ cmarkPath # ""
        /\ EqualFold(Ext(req[c].out), dotMd)
        /\ ~Has(docs, htmlOutNameFor(files, req[c].out))

\* what the export writes for a document: header, converter output, footer
Rendering(data) ==
    fragment(includes, headerHtml) \o cmarkOutput(data)
        \o fragment(includes, footerHtml)

\* C17 as stated.  After a Save answered 204 that renamed n, the rendered
\* output OutputNameFor(n) that existed before does not exist.
C17_OldOutputGone ==
    \A c \in Callers :
        (Renamed(c) /\ Has(pre.docs, htmlOutNameFor(files, req[c].name)))
        => ~Has(docs, htmlOutNameFor(files, req[c].name))

\* C17, amended.  After a Save answered 204 that renamed n to m, the
\* rendered output OutputNameFor(n) does not exist, unless it is also
\* OutputNameFor(m) and the export has written it: then it is the rendering
\* of the saved document, not the old file.
C17_OldOutputGoneOrRewritten ==
    \A c \in Callers :
        Renamed(c) =>
            LET o == htmlOutNameFor(files, req[c].name)
            IN Has(docs, o) =>
                  /\ cmarkPath # ""
                  /\ o = htmlOutNameFor(files, req[c].out)
                  /\ docs[o] = Rendering(req[c].data)

\* a.md renamed with no converter discovered: its old output a.html existed
\* and is gone
C17_Witness ==
    \E c \in Callers :
        /\ Renamed(c)
        /\ cmarkPath = ""
        /\ Has(pre.docs, htmlOutNameFor(files, req[c].name))
        /\ ~Has(docs, htmlOutNameFor(files, req[c].name))

\* C18.  A Save (POST) whose incoming name is not its own base name is
\* answered 400 whatever the lock table holds, and changes no document, no
\* rendered output and no lock.
C18_TraversalRejected ==
    \A c \in Callers :
        /\ (req[c].kind = "save" /\ req[c].name # <<>>
               /\ Base(req[c].name) # req[c].name) =>
              /\ req[c].pc = "done"
              /\ req[c].status = 400
              /\ locks = pre.locks
              /\ files = pre.files
              /\ docs = pre.docs

\* ../a.md refused while a.md is locked and a document exists
C18_Witness ==
    \E c \in Callers :
        /\ Answered(c, "save") /\ req[c].status = 400
        /\ req[c].name = evilMd
        /\ Has(locks, aMd)
        /\ files # EmptyMap

\* a letter of a-z or A-Z, or a digit
IsAlnum(c) == IsSlugChar(ToLowerChar(c))

IsHyphen(c) == c = "-"

\* the position of the k-th letter or digit of seq
AlnumPos(seq, k) ==
    CHOOSE i \in 1..Len(seq) :
        /\ IsAlnum(seq[i])
        /\ Cardinality({j \in 1..i : IsAlnum(seq[j])}) = k

\* C19.  Slugify(s) is s lower-cased with every maximal run of characters
\* outside a-z, 0-9 replaced by one hyphen and the hyphens at both ends
\* removed: only a-z, 0-9 and hyphens, no two hyphens in a row, none at
\* either end, the letters and digits of s in their order, a hyphen between
\* two of them exactly where s has something between them, and empty iff s
\* has no letter or digit.
C19_SlugShape ==
    \A c \in Callers :
        Answered(c, "slugify") =>
            LET s   == req[c].data
                out == req[c].out
                n   == Len(SelectSeq(s, IsAlnum))
            IN /\ \A i \in 1..Len(out) : IsSlugChar(out[i]) \/ IsHyphen(out[i])
               /\ \A i \in 1..(Len(out) - 1) :
                     ~(IsHyphen(out[i]) /\ IsHyphen(out[i+1]))
               /\ out # <<>> => ~IsHyphen(out[1]) /\ ~IsHyphen(out[Len(out)])
               /\ SelectSeq(out, IsSlugChar) = ToLower(SelectSeq(s, IsAlnum))
               /\ \A k \in 1..(n - 1) :
                     (AlnumPos(out, k + 1) = AlnumPos(out, k) + 2)
                        <=> (AlnumPos(s, k + 1) > AlnumPos(s, k) + 1)
               /\ out = <<>> <=> n = 0

\* an upper-case letter, a run of two separators, a digit: one hyphen
C19_Witness ==
    \E c \in Callers :
        /\ Answered(c, "slugify")
        /\ req[c].data = <<"B", " ", "-", "1">>
        /\ req[c].out = <<"b", "-", "1">>

\* both forms match in s and their matches start at the same offset
Tie(s) ==
    /\ atxH1Re(s).found /\ setextH1Re(s).found
    /\ atxH1Re(s).start = setextH1Re(s).start

\* C20.  Extract returns the title of the first heading: empty when neither
\* form matches; when one form matches, or both and one match starts at the
\* lower offset, the trimmed text of that match; and what follows a line
\* break after a document that has a title changes nothing, when the first
\* matches of the two forms do not start at the same offset.
C20_FirstHeadingWins ==
    \A c \in Callers :
        Answered(c, "extract") =>
            LET s      == req[c].data
                atx    == atxH1Re(s)
                setext == setextH1Re(s)
            IN /\ (~atx.found /\ ~setext.found) => req[c].out = <<>>
               /\ (atx.found /\ (~setext.found \/ atx.start < setext.start))
                     => req[c].out = TrimSpace(atx.cap)
               /\ (setext.found /\ (~atx.found \/ setext.start < atx.start))
                     => req[c].out = TrimSpace(setext.cap)
               /\ \A i \in 1..Len(s) :
                     ( /\ s[i] = "\n"
                       /\ extractTitle(SubSeq(s, 1, i - 1)) # <<>>
                       /\ ~Tie(s) )
                     => req[c].out = extractTitle(SubSeq(s, 1, i - 1))

\* a Setext heading B, then an ATX heading A: the title is B
C20_Witness ==
    \E c \in Callers :
        /\ Answered(c, "extract")
        /\ req[c].data = <<"B", "\n", "=", "\n", "#", " ", "A">>
        /\ req[c].out = <<"B">>

\* C21.  When the first ATX match and the first Setext match start at the
\* same offset, Extract returns the empty title and Resolve returns the
\* current name.
C21_TieYieldsEmpty ==
    \A c \in Callers :
        /\ (Answered(c, "extract") /\ Tie(req[c].data)) => req[c].out = <<>>
        /\ (Answered(c, "decide") /\ Tie(req[c].data)) =>
              req[c].out = req[c].name

\* C22.  OutputNameFor(mdBase) is index.html when mdBase lower-cases to
\* readme.md and no file of the working directory lower-cases to index.md;
\* in every other case it is mdBase up to its final dot (the whole of it
\* when it has none) followed by .html.
C22_OutputName ==
    \A c \in Callers :
        Answered(c, "outname") =>
            LET n == req[c].name
            IN IF /\ ToLower(n) = readmeMd
                  /\ ~\E f \in DOMAIN files : ToLower(f) = indexMd
               THEN req[c].out = indexHtml
               ELSE req[c].out = SubSeq(n, 1, LastDot(n) - 1) \o dotHtml

\* README.md while Index.md exists: the output is README.html
C22_Witness ==
    \E c \in Callers :
        /\ Answered(c, "outname")
        /\ req[c].name = ReadmeMdUpper
        /\ Has(files, IndexMdMixed) /\ ~Has(files, indexMd)
        /\ req[c].out = <<"R","E","A","D","M","E">> \o dotHtml

\* the content of a fragment of _includes, nothing when it is not there
Fragment(name) == IF name \in DOMAIN includes THEN includes[name] ELSE <<>>

\* C23.  For a source with the extension .md, in any case of letters, and a
\* converter that exits zero, Export returns no error and leaves the docs
\* directory as it was but for the output path, which holds the header
\* fragment, the standard output of the converter and the footer fragment,
\* in this order, a fragment that is not there counting as empty.
C23_ExportComposes ==
    \A c \in Callers :
        ( /\ Answered(c, "export")
          /\ ToLower(SubSeq(req[c].name, LastDot(req[c].name),
                             Len(req[c].name))) = dotMd
          /\ req[c].tok = "exit0" )
        => /\ req[c].ok
           /\ docs = Put(pre.docs, req[c].name2,
                         Fragment(headerHtml)
                             \o cmarkOutput(files[req[c].name])
                             \o Fragment(footerHtml))

\* a footer and no header: the stale output is replaced by body and footer
C23_Witness ==
    \E c \in Callers :
        /\ Answered(c, "export")
        /\ req[c].name = aMdUpperExt
        /\ req[c].name2 = aHtml
        /\ pre.docs = Put(EmptyMap, aHtml, staleHtml)
        /\ ~Has(includes, headerHtml)
        /\ docs[aHtml] = cmarkOutput(bodyB) \o <<"f">>

\* a Save that has resolved a target other than its incoming name
Renaming(c) ==
    /\ req[c].kind = "save"
    /\ req[c].pc \in {"saveWrite", "saveRemoveOld", "saveRemoveOut",
                      "saveExport", "done"}
    /\ req[c].target # <<>>
    /\ req[c].target # req[c].name

\* C24.  In a renaming Save of a document that existed, at every step
\* either the old name still holds the old document or the target holds the
\* saved data: the old document is removed only once the target is written.
\* When the write fails the answer is 500 and the old document, the rendered
\* outputs and the lock table are as they were when the request began.
C24_OldKeptUntilWritten ==
    \A c \in Callers :
        Renaming(c) =>
            LET n == req[c].name
                kept == Has(pre.files, n) =>
                           Has(files, n) /\ files[n] = pre.files[n]
            IN /\ Has(pre.files, n) =>
                     \/ Has(files, n) /\ files[n] = pre.files[n]
                     \/ /\ Has(files, req[c].target)
                        /\ files[req[c].target] = req[c].data
               /\ req[c].pc = "saveWrite" => kept
               /\ (req[c].pc = "done" /\ req[c].status # 204) =>
                     /\ req[c].status = 500
                     /\ kept
                     /\ ~Has(pre.files, n) => ~Has(files, n)
                     /\ docs = pre.docs
                     /\ locks = pre.locks

\* the write of the target failed after it created the file: the old
\* document and its lock are still there
C24_Witness ==
    \E c \in Callers :
        /\ Renaming(c)
        /\ req[c].pc = "done" /\ req[c].status = 500
        /\ Has(pre.files, req[c].name)
        /\ Has(files, req[c].name)
        /\ Has(files, req[c].target) /\ files[req[c].target] = <<>>
        /\ Has(locks, req[c].name)

\* the lock table shows the editor's token on n
EditorOwns(n) == Has(locks, n) /\ locks[n].token = EditorToken

\* C25.  While the editor holds the lock on n and refreshes it once in
\* every tick of 500 ms, the lock stays the editor's: an Acquire on n with
\* any other token, or none, is refused and changes nothing, and a Save on n
\* with the editor's token passes validation.
C25_RefreshKeepsLock ==
    [][\A n \in EditedFiles :
          EditorOwns(n) =>
             /\ Has(locks', n) /\ locks'[n].token = EditorToken
             /\ \A c \in Callers :
                   /\ ( /\ req[c].pc = "lockCS" /\ req'[c].pc = "done"
                        /\ req[c].name = n /\ req[c].tok # EditorToken )
                      => req'[c].status = 423 /\ locks' = locks
                   /\ ( /\ req[c].pc = "saveCS" /\ req'[c].pc # "saveCS"
                        /\ req[c].name = n /\ req[c].tok = EditorToken )
                      => req'[c].pc = "saveResolve"]_vars

\* the only request of anybody else is an Acquire at the last tick, well
\* after the TTL of the editor's first lock: it is refused
C25_Witness ==
    \E c \in Callers \ {Editor} :
        /\ nreq = 1
        /\ Answered(c, "lock") /\ req[c].status = 423
        /\ req[c].now > lockTTL
        /\ EditorOwns(req[c].name)

\* C26.  A refresh (POST /lock for n presenting t) that finds the lock n
\* held with t expired does not make t the owner of n again: afterwards the
\* table has no live lock for n with token t.
C26_NoRegainByRefresh ==
    \A c \in Callers :
        ( /\ Answered(c, "lock") /\ req[c].status \in {200, 201, 423}
          /\ req[c].tok # ""
          /\ Has(pre.locks, req[c].name)
          /\ pre.locks[req[c].name].token = req[c].tok
          /\ ~Live(pre.locks, req[c].name, req[c].now) )
        => ~( /\ Live(locks, req[c].name, req[c].now)
              /\ locks[req[c].name].token = req[c].tok )

\* C27.  An Acquire on a name with a live lock, presenting no token or
\* another token than the lock's, is Refused (423), and a Refused Acquire
\* leaves the whole lock table, the documents and the rendered outputs as
\* they were.
C27_RefusedChangesNothing ==
    \A c \in Callers :
        (Answered(c, "lock") /\ req[c].status \in {200, 201, 423}) =>
            LET n == req[c].name
                refused == /\ Live(pre.locks, n, req[c].now)
                           /\ req[c].tok = "" \/ req[c].tok # pre.locks[n].token
            IN /\ refused <=> req[c].status = 423
               /\ req[c].status = 423 =>
                     /\ locks = pre.locks
                     /\ req[c].rtok = ""
                     /\ files = pre.files
                     /\ docs = pre.docs

\* refused half a TTL after the lock was taken, a second lock in the table
C27_Witness ==
    \E c \in Callers :
        /\ Answered(c, "lock") /\ req[c].status = 423
        /\ req[c].tok # ""
        /\ Cardinality(DOMAIN pre.locks) = 2
        /\ pre.locks[req[c].name].expires < req[c].now + lockTTL
        /\ locks = pre.locks

\* C28.  Validate(name, token) removes the lock of name from the table,
\* and nothing else, exactly when it finds it expired (its clock reading is
\* after the expiry), whatever the token, and then returns false; on a lock
\* it does not find expired and on a missing lock it changes nothing and
\* returns true iff the lock exists and has exactly this token.
C28_ValidateEvictsExpired ==
    \A c \in Callers :
        Answered(c, "validate") =>
            LET n == req[c].name
                expired == Has(pre.locks, n) /\ req[c].now > pre.locks[n].expires
            IN IF expired
               THEN /\ ~req[c].ok
                    /\ ~Has(locks, n)
                    /\ \A m \in DOMAIN pre.locks \ {n} :
                          Has(locks, m) /\ locks[m] = pre.locks[m]
                    /\ DOMAIN locks \subseteq DOMAIN pre.locks
               ELSE /\ locks = pre.locks
                    /\ req[c].ok <=>
                          (Has(pre.locks, n) /\ pre.locks[n].token = req[c].tok)

\* an expired lock evicted by a Validate that presented another token, the
\* lock of the other name staying
C28_Witness ==
    \E c \in Callers :
        /\ Answered(c, "validate")
        /\ Has(pre.locks, req[c].name)
        /\ pre.locks[req[c].name].token # req[c].tok
        /\ ~Has(locks, req[c].name)
        /\ Cardinality(DOMAIN locks) = 1

\* C29.  Transfer(old, new, token) leaves the whole lock table as it was
\* when old has no lock, when the lock of old has another token, and when
\* Transfer finds the lock of old expired (its clock reading is after the
\* expiry): the entry of old is kept, none is created or changed for new.
C29_TransferNoop ==
    \A c \in Callers :
        Answered(c, "transfer") =>
            LET old == req[c].name
            IN ( \/ ~Has(pre.locks, old)
                 \/ Has(pre.locks, old) /\ pre.locks[old].token # req[c].tok
                 \/ Has(pre.locks, old) /\ req[c].now > pre.locks[old].expires )
               => locks = pre.locks

\* the owner's token on an expired lock, towards a name without a lock:
\* nothing moves
C29_Witness ==
    \E c \in Callers :
        /\ Answered(c, "transfer")
        /\ Has(pre.locks, req[c].name)
        /\ pre.locks[req[c].name].token = req[c].tok
        /\ req[c].now > pre.locks[req[c].name].expires
        /\ req[c].name2 # req[c].name
        /\ ~Has(pre.locks, req[c].name2)
        /\ locks = pre.locks

\* the handlers of a caller whose request is at its critical section, or
\* who sends a release, can take their step
CanEnter(d) ==
    /\ req[d].pc = "lockCS" => ENABLED LockCS(d)
    /\ req[d].pc = "saveCS" => ENABLED SaveCS(d)
    /\ Idle(d) => \A f \in ConcLockFiles, t \in Tokens :
                      ENABLED (nreq' = nreq /\ Unlock(d, FALSE, {f}, {t}))

IsMarkdown(name) ==
    ToLower(SubSeq(name, LastDot(name), Len(name))) = dotMd

\* C31.  Export on a .md source whose converter cannot be run or exits
\* non-zero returns an error and leaves every rendered output as it was,
\* the output path included; Export on a source that is not .md returns no
\* error and writes nothing either.
C31_ExportFailsAsAWhole ==
    \A c \in Callers :
        Answered(c, "export") =>
            /\ (IsMarkdown(req[c].name) /\ req[c].tok = "failed") =>
                  ~req[c].ok /\ docs = pre.docs
            /\ ~IsMarkdown(req[c].name) =>
                  req[c].ok /\ docs = pre.docs

\* the converter failed on a.md: the output an earlier run left at the
\* output path is still there
C31_Witness ==
    \E c \in Callers :
        /\ Answered(c, "export")
        /\ req[c].name = aMd /\ req[c].name2 = aHtml
        /\ req[c].tok = "failed" /\ ~req[c].ok
        /\ Has(docs, aHtml) /\ docs[aHtml] = staleHtml

\* C32.  A POST /lock without a file name (no file parameter, or an empty
\* one) is answered 400 and changes nothing in the lock table.
C32_MissingFileRejected ==
    \A c \in Callers :
        ( /\ req[c].kind = "lock" /\ req[c].status # 405
          /\ req[c].name2 = noFile )
        => /\ req[c].pc = "done"
           /\ req[c].status = 400
           /\ locks = pre.locks

\* Validate accepts tok for n at the instant `now`
ValidateAccepts(n, tok, now) == hasValidLock(locks, n, tok, now).ok

\* Transfer moves the lock of n to m for tok at the instant `now`
TransferAccepts(n, m, tok, now) ==
    ~Has(transferLock(locks, n, m, tok, now), n)

\* an Acquire on n presenting tok at the instant `now` is Created
AcquireGranted(n, tok, now) ==
    \A newTok \in GenTokens : lockBody(locks, n, tok, now, newTok).status = 201

\* C33.  At every instant, the instant of the expiry included, Acquire,
\* Validate and Transfer agree on whether the lock of n is live: never does
\* Validate, or Transfer, accept the owner's token for n at an instant at
\* which an Acquire on n with another token would be granted.
C33_LivenessAgrees ==
    \A n \in DOMAIN locks : \A other \in Tokens \ {locks[n].token} :
        AcquireGranted(n, other, clock) =>
            /\ ~ValidateAccepts(n, locks[n].token, clock)
            /\ \A m \in LockFiles \ {n} :
                  ~TransferAccepts(n, m, locks[n].token, clock)

\* C34.  Saved names are stable: when a Save of body b is answered 204 with
\* the final name f, a Save of b on f that follows at once resolves to f
\* again and renames nothing, also when f carries a number.
C34_SavedNameStable ==
    \A c \in Callers :
        (Answered(c, "save") /\ req[c].status = 204) =>
            FinalName(files, req[c].out, req[c].data) = req[c].out

\* C35.  Transfer(old, new, tok) never removes or replaces a live lock of
\* new held by another token: a token that Validate accepted for new before
\* the call is accepted for new after it.
C35_TransferSparesForeignLock ==
    \A c \in Callers :
        Answered(c, "transfer") =>
            \A t \in Tokens \ {req[c].tok} :
                hasValidLock(pre.locks, req[c].name2, t, req[c].now).ok
                => hasValidLock(locks, req[c].name2, t, req[c].now).ok

\* C36.  A refresh that is answered 200 never moves the expiry of its lock
\* to an earlier instant, also when two lock requests of the owner overlap
\* and enter the critical section in the other order than they read the
\* clock.
C36_RefreshNeverShortens ==
    [][\A c \in Callers :
          ( /\ req[c].pc = "lockCS" /\ req'[c].pc = "done"
            /\ req'[c].status = 200 )
          => locks'[req[c].name].expires >= locks[req[c].name].expires]_vars

\* C37.  No lock of the table has the empty token, and a Save or a Release
\* that presents no token is never accepted: the Save does not get past
\* validation, the Release is answered 423, whether the name has a lock or
\* not.
C37_NoEmptyToken ==
    /\ \A n \in DOMAIN locks : locks[n].token # ""
    /\ \A c \in Callers :
          /\ (req[c].kind = "save" /\ req[c].tok = "") =>
                /\ ~SavePastValidation(c)
                /\ req[c].pc = "done" => req[c].status \in {400, 405, 423}
          /\ (Answered(c, "unlock") /\ req[c].tok = "" /\ req[c].status # 405) =>
                req[c].status = 423 /\ locks = pre.locks

\* a Save without a token refused on a name whose lock was created by a
\* request without a token
C37_Witness ==
    \E c \in Callers :
        /\ Answered(c, "save") /\ req[c].status = 423
        /\ req[c].tok = "" /\ req[c].data # <<>>
        /\ Has(locks, req[c].name)
        /\ req[c].now < locks[req[c].name].expires

\* C38.  The cleanup of a renaming Save removes only the rendered output of
\* the document it renamed: when it removes an output, no other document of
\* the working directory (other than the renamed one under its old or its
\* new name) has that output as its OutputNameFor.
C38_CleanupOwnOutputOnly ==
    [][\A c \in Callers :
          (req[c].pc = "saveRemoveOut" /\ req'[c].pc = "saveExport") =>
             \A o \in DOMAIN docs \ DOMAIN docs' :
                \A f \in DOMAIN files \ {req[c].name, req[c].target} :
                    htmlOutNameFor(files, f) # o]_vars

\* C39.  slugify is idempotent and deterministic: the slug of a slug is that
\* slug, the slug recorded for an input is the one slugify gives for it, and
\* a document named after a slug and titled with it keeps its name.
C39_SlugifyIdempotent ==
    \A c \in Callers :
        Answered(c, "slugify") =>
            LET slug == req[c].out IN
            /\ slugify(req[c].data) = slug
            /\ slugify(slug) = slug
            /\ slug # <<>> =>
                  decideFilenameFromContent(slug \o dotMd, <<"#", " ">> \o slug)
                      = slug \o dotMd

C39_Witness ==
    \E c \in Callers :
        /\ Answered(c, "slugify")
        /\ req[c].data = <<" ", "a", " ", "B">>
        /\ req[c].out = <<"a", "-", "b">>

====
